---- MODULE Spec2Model ----
(***************************************************************************)
(* A model of the response-time-analysis library: the supply bounds, the   *)
(* fixed-point search of fixed_point.rs, the reduction of per-offset       *)
(* results, the bounded response-time search, and the step iterators of    *)
(* the arrival bounds.                                                     *)
(*                                                                         *)
(* Time, Duration, Service and Instant are u64 in the source.  Every       *)
(* subtraction the source writes with `-` is modelled with its overflow    *)
(* behaviour: a panic where overflow checks are compiled in (debug         *)
(* builds), a wrap-around modulo the word size otherwise.                  *)
(***************************************************************************)
EXTENDS Integers, Sequences, FiniteSets, TLC

\* ------------------------------------------------------------------ bounds

\* largest divergence limit (and largest argument of a workload function)
MaxLimit == 3
\* largest offset handed to search_with_offset
MaxOffset == 2
\* largest demand a workload function returns
MaxDemand == 4
\* largest period of a periodic or constrained supply
MaxPeriod == 3
\* longest sequence of per-offset results handed to max_response_time
MaxResults == 4
\* largest response time in a sequence handed to max_response_time
MaxValue == 2
\* largest release jitter of a sporadic or propagated arrival model
MaxJitter == 3
\* longest delta-min prefix of an arrival curve
MaxPrefixLen == 3
\* largest distance in a delta-min prefix
MaxDistance == 4
\* largest horizon of an arrival-curve prefix
MaxHorizon == 4
\* most steps of an arrival-curve prefix
MaxPrefixSteps == 2
\* largest job count in a step of an arrival-curve prefix
MaxJobs == 3
\* how many values are drawn from a step iterator
MaxSteps == 4
\* longest interval number_arrivals is asked about
MaxDelta == 8
\* most arrival bounds in a Vec or slice
MaxComponents == 2
\* largest cost in a cost model
MaxCost == 3
\* longest vector of a WCET curve
MaxCostLen == 3
\* most frames of a multi-frame cost model
MaxFrames == 2
\* most jobs a cost model is asked about
MaxN == 5
\* most offsets pulled from step_offsets()
MaxOffsetsPulled == 2
\* longest table of a supply bound that relies on the default service_time
MaxTableLen == 4
\* longest interval an ExtrapolatingCurve is asked about, loop by loop
MaxQueried == 3
\* most calls made on one ExtrapolatingCurve, loop by loop
MaxCalls == 2
\* largest WCET of a task handed to dedicated_uniproc_rta
MaxWcet == 2
\* largest period of such a task
MaxTaskPeriod == 3
\* largest release jitter of such a task
MaxTaskJitter == 1
\* largest blocking bound of the task under analysis
MaxBlocking == 1
\* the divergence limit handed to dedicated_uniproc_rta
RtaLimit == 10
\* the divergence limit of the test fp_fp_rta_basic
TestHorizon == 100

\* The word size of Time.  TLC's integers have 32 bits, so the 64-bit word
\* of the source is scaled down; every other quantity of the model stays
\* far below this modulus, so a wrapped difference is, as in the source,
\* larger than every limit and every response time.
TimeModulus == 2^20

\* ------------------------------------------------------------ time algebra

\* `a - b` on u64 without overflow checks (release builds)
WrappingSub(a, b) == (a - b) % TimeModulus

\* `a - b` on u64 overflows (panics where overflow checks are compiled in)
SubOverflows(a, b) == a < b

Min(a, b) == IF a <= b THEN a ELSE b

Max(a, b) == IF a >= b THEN a ELSE b

\* ------------------------------------------------------------ supply bounds

Dedicated == [kind |-> "Dedicated"]

Dedicated_provided_service(delta) == delta

Dedicated_service_time(demand) == demand

Periodic_provided_service(s, delta) ==
    LET budget == s.budget
        slack == s.period - budget
    IN  IF slack > delta THEN 0
        ELSE LET full_periods == (delta - slack) \div s.period
                 x == slack + slack + s.period * full_periods
                 fractional_period == IF x < delta THEN delta - x ELSE 0
             IN  s.budget * full_periods + fractional_period

\* service_time without the initial blackout
Periodic_service_time_NoSlack(s, demand) ==
    IF demand = 0 THEN 0
    ELSE LET budget == s.budget
             slack == s.period - budget
             full_periods == demand \div budget
             full_budget == budget * full_periods
             fractional_budget ==
                 IF full_budget < demand THEN slack + demand - full_budget
                 ELSE 0
         IN  s.period * full_periods + fractional_budget

Periodic_service_time(s, demand) ==
    IF demand = 0 THEN 0
    ELSE LET budget == s.budget
             slack == s.period - budget
             full_periods == demand \div budget
             full_budget == budget * full_periods
             fractional_budget ==
                 IF full_budget < demand THEN slack + demand - full_budget
                 ELSE 0
         IN  slack + s.period * full_periods + fractional_budget

\* provided_service without the cap of the fractional period at the budget
Constrained_provided_service_NoCap(s, delta) ==
    LET budget == s.budget
        shift == s.period - budget
    IN  IF shift > delta THEN 0
        ELSE LET full_periods == (delta - shift) \div s.period
                 x == shift + s.period * full_periods + s.deadline - budget
                 fractional_period == IF x < delta THEN delta - x ELSE 0
             IN  s.budget * full_periods + fractional_period

Constrained_provided_service(s, delta) ==
    LET budget == s.budget
        shift == s.period - budget
    IN  IF shift > delta THEN 0
        ELSE LET full_periods == (delta - shift) \div s.period
                 x == shift + s.period * full_periods + s.deadline - budget
                 fractional_period ==
                     IF x < delta THEN Min(s.budget, delta - x) ELSE 0
             IN  s.budget * full_periods + fractional_period

\* service_time that is one time unit late
Constrained_service_time_Late(s, demand) ==
    IF demand = 0 THEN 0
    ELSE LET budget == s.budget
             full_periods == demand \div budget
             full_budget == budget * full_periods
             fractional_budget ==
                 IF full_budget < demand
                 THEN demand - full_budget + s.period - budget
                 ELSE 0
         IN  s.deadline - budget + s.period * full_periods
                 + fractional_budget + 1

Constrained_service_time(s, demand) ==
    IF demand = 0 THEN 0
    ELSE LET budget == s.budget
             full_periods == demand \div budget
             full_budget == budget * full_periods
             fractional_budget ==
                 IF full_budget < demand
                 THEN demand - full_budget + s.period - budget
                 ELSE 0
         IN  s.deadline - budget + s.period * full_periods + fractional_budget

\* SupplyBound::provided_service, dispatched on the implementing type
provided_service(s, delta) ==
    CASE s.kind = "Dedicated" -> Dedicated_provided_service(delta)
      [] s.kind = "Periodic" -> Periodic_provided_service(s, delta)
      [] s.kind = "Constrained" -> Constrained_provided_service(s, delta)

\* SupplyBound::service_time, dispatched on the implementing type
service_time(s, demand) ==
    CASE s.kind = "Dedicated" -> Dedicated_service_time(demand)
      [] s.kind = "Periodic" -> Periodic_service_time(s, demand)
      [] s.kind = "Constrained" -> Constrained_service_time(s, demand)

\* the supplies the constructors accept, with a positive budget
PeriodicSupplies ==
    {s \in [kind : {"Periodic"}, budget : 1..MaxPeriod, period : 1..MaxPeriod] :
        s.budget <= s.period}

ConstrainedSupplies ==
    {s \in [kind : {"Constrained"}, budget : 1..MaxPeriod,
            deadline : 1..MaxPeriod, period : 1..MaxPeriod] :
        s.budget <= s.deadline /\ s.deadline <= s.period}

Supplies == {Dedicated} \cup PeriodicSupplies \cup ConstrainedSupplies

\* ------------------------------------------------------------ search results

Ok(v) == [kind |-> "Ok", val |-> v]

\* SearchFailure::DivergenceLimitExceeded { offset, limit }
DivergenceLimitExceeded(o, l) == [kind |-> "Err", offset |-> o, limit |-> l]

\* the thread panicked: no value is returned
Panicked == [kind |-> "Panic"]

\* the call has not returned yet
Pending == [kind |-> "Pending"]

\* ------------------------------------------------- workloads (right-hand sides)

\* the monotonically non-decreasing right-hand sides on 0..MaxLimit
Workloads ==
    {w \in [0..MaxLimit -> 0..MaxDemand] :
        \A i \in 0..(MaxLimit - 1) : w[i] <= w[i + 1]}

\* ------------------------------------------------------- search_with_offset

\* the loop condition with `<` for `<=`
LoopGuard_Strict(assumed, limit) == assumed < limit

\* the loop condition
LoopGuard(assumed, limit) == assumed <= limit

\* supply.service_time(demand) - offset
ResponseTimeBound(s, o, demand) == WrappingSub(service_time(s, demand), o)

\* the convergence test with `<` for `<=`
Converged_Strict(bound, assumed) == bound < assumed

\* the convergence test
Converged(bound, assumed) == bound <= assumed

\* brute_force_search_with_offset: the first r in from..limit that solves
\* the equation, zero as soon as the demand is zero
RECURSIVE BruteForceFrom(_, _, _, _, _)
BruteForceFrom(s, o, limit, w, r) ==
    IF r > limit THEN DivergenceLimitExceeded(o, limit)
    ELSE LET lhs == provided_service(s, o + r)
             rhs == w[r]
         IN  IF rhs = 0 THEN Ok(0)
             ELSE IF lhs = rhs THEN Ok(r)
             ELSE BruteForceFrom(s, o, limit, w, r + 1)

brute_force_search_with_offset(s, o, limit, w) ==
    BruteForceFrom(s, o, limit, w, 1)

\* search_with_offset as a function of its arguments; checked tells whether
\* the build checks arithmetic for overflow
RECURSIVE SearchFrom(_, _, _, _, _, _)
SearchFrom(s, o, limit, w, assumed, checked) ==
    IF ~LoopGuard(assumed, limit) THEN DivergenceLimitExceeded(o, limit)
    ELSE IF checked /\ SubOverflows(service_time(s, w[assumed]), o)
    THEN Panicked
    ELSE LET response_time_bound == ResponseTimeBound(s, o, w[assumed])
         IN  IF Converged(response_time_bound, assumed)
             THEN Ok(response_time_bound)
             ELSE SearchFrom(s, o, limit, w, response_time_bound, checked)

search_with_offset(s, o, limit, w, checked) ==
    SearchFrom(s, o, limit, w, 1, checked)

\* search_with_offset followed by the debug_assert_eq! against the
\* brute-force search, which only a debug build executes
AssertedSearch(s, o, limit, w, debug) ==
    LET rta == search_with_offset(s, o, limit, w, debug)
    IN  IF debug /\ rta # brute_force_search_with_offset(s, o, limit, w)
        THEN Panicked ELSE rta

\* search
search(s, limit, w, debug) == AssertedSearch(s, 0, limit, w, debug)

\* ------------------------------------------------------------ arrival bounds

\* the value that stands for a panic inside number_arrivals (a usize is
\* never negative)
PanicJobs == 0 - 1

\* a sum of job counts, unless one of the calls panicked
AddJobs(a, b) == IF a < 0 \/ b < 0 THEN PanicJobs ELSE a + b

MaxOf(S) == CHOOSE x \in S : \A y \in S : y <= x

MinOf(S) == CHOOSE x \in S : \A y \in S : x <= y

Last(q) == q[Len(q)]

\* divide_with_ceil
divide_with_ceil(a, b) == (a \div b) + (IF a % b > 0 THEN 1 ELSE 0)

ArrPeriodic_number_arrivals(ab, delta) == divide_with_ceil(delta, ab.period)

Sporadic_number_arrivals(ab, delta) ==
    IF delta # 0 THEN divide_with_ceil(delta + ab.jitter, ab.min_inter_arrival)
    ELSE 0

\* Curve::can_extrapolate
can_extrapolate(md) == Len(md) >= 2

\* Curve::extrapolate_next; min_distance[k] of the source is md[k + 1]
extrapolate_next(md) ==
    LET n == Len(md)
    IN  MaxOf({md[k + 1] + md[n - k] : k \in 0..(n \div 2)})

\* Curve::extrapolate
RECURSIVE extrapolate(_, _)
extrapolate(md, horizon) ==
    IF can_extrapolate(md) /\ Last(md) < horizon
    THEN extrapolate(Append(md, extrapolate_next(md)), horizon)
    ELSE md

\* Curve::extrapolate_steps
RECURSIVE extrapolate_steps(_, _)
extrapolate_steps(md, n) ==
    IF can_extrapolate(md) /\ Len(md) < n
    THEN extrapolate_steps(Append(md, extrapolate_next(md)), n)
    ELSE md

\* Curve::lookup_arrivals
lookup_arrivals(md, delta) ==
    LET hits == {i \in 1..Len(md) : delta <= md[i]}
    IN  IF hits = {} THEN PanicJobs
        ELSE LET njobs == (MinOf(hits) - 1) + 2 IN njobs - 1

\* Curve::min_distance
min_distance(md, n) ==
    IF n > 1 THEN md[Min(n - 2, Len(md) - 1) + 1] ELSE 0

\* Curve::number_arrivals
Curve_number_arrivals(md, delta) ==
    IF delta # 0
    THEN IF Last(md) = 0 THEN PanicJobs
         ELSE LET prefix == delta \div Last(md)
                  prefix_jobs == prefix * Len(md)
                  tail == delta % Last(md)
              IN  IF tail > md[1]
                  THEN AddJobs(prefix_jobs, lookup_arrivals(md, tail))
                  ELSE prefix_jobs + (IF tail # 0 THEN 1 ELSE 0)
    ELSE 0

\* ArrivalCurvePrefix::max_njobs_in_horizon; a step is <<delta, njobs>>
max_njobs_in_horizon(ab) ==
    IF ab.steps = <<>> THEN 0 ELSE Last(ab.steps)[2]

\* ArrivalCurvePrefix::lookup
lookup(ab, delta) ==
    IF delta = 0 THEN 0
    ELSE LET later == {i \in 1..Len(ab.steps) : ~(ab.steps[i][1] <= delta)}
             i == IF later = {} THEN Len(ab.steps) ELSE MinOf(later) - 1
         IN  IF i = 0 THEN PanicJobs ELSE ab.steps[i][2]

\* number_arrivals of a prefix that forgets the full horizons
Prefix_number_arrivals_NoFold(ab, delta) == lookup(ab, delta % ab.horizon)

\* ArrivalCurvePrefix::number_arrivals
Prefix_number_arrivals(ab, delta) ==
    LET full_horizons == delta \div ab.horizon
        partial_horizon == delta % ab.horizon
    IN  AddJobs(max_njobs_in_horizon(ab) * full_horizons,
                lookup(ab, partial_horizon))

\* the delta-min prefix of the ExtrapolatingCurve after number_arrivals
\* (anywhere in ab) has extrapolated it
RECURSIVE PrefixAfterQuery(_, _, _)
PrefixAfterQuery(ab, delta, pfx) ==
    CASE ab.kind = "ExtrapolatingCurve" ->
            IF delta = 0 THEN pfx ELSE extrapolate(pfx, delta + 1)
      [] ab.kind = "Propagated" ->
            IF delta # 0
            THEN PrefixAfterQuery(ab.input_event_model,
                                  delta + ab.response_time_jitter, pfx)
            ELSE pfx
      [] OTHER -> pfx

\* ArrivalBound::number_arrivals, dispatched on the implementing type; pfx
\* is the current delta-min prefix of the ExtrapolatingCurve
RECURSIVE number_arrivals(_, _, _)
number_arrivals(ab, delta, pfx) ==
    CASE ab.kind = "Periodic" -> ArrPeriodic_number_arrivals(ab, delta)
      [] ab.kind = "Sporadic" -> Sporadic_number_arrivals(ab, delta)
      [] ab.kind = "Curve" -> Curve_number_arrivals(ab.min_distance, delta)
      [] ab.kind = "ExtrapolatingCurve" ->
            IF delta = 0 THEN 0
            ELSE Curve_number_arrivals(extrapolate(pfx, delta + 1), delta)
      [] ab.kind = "ArrivalCurvePrefix" -> Prefix_number_arrivals(ab, delta)
      [] ab.kind = "Never" -> 0
      [] ab.kind = "Propagated" ->
            IF delta # 0
            THEN number_arrivals(ab.input_event_model,
                                 delta + ab.response_time_jitter, pfx)
            ELSE 0

\* --------------------------------------------------------- step iterators

\* what Iterator::next returns: Some(val), None, a panic, or nothing at all
\* because the call never returns
Some(v) == [kind |-> "Some", val |-> v]

None == [kind |-> "None"]

IterPanic == [kind |-> "Panic"]

Hang == [kind |-> "Hang"]

\* the step sizes Curve::steps_iter collects: the non-zero differences of
\* consecutive distances
StepSizes(md) ==
    LET diff(i) == md[i] - (IF i = 1 THEN 0 ELSE md[i - 1])
        raw == [i \in 1..Len(md) |-> diff(i)]
    IN  SelectSeq(raw, LAMBDA d : d # 0)

\* steps_iter(): the state of the fresh iterator
RECURSIVE StepsIterNew(_, _)
StepsIterNew(ab, pfx) ==
    CASE ab.kind = "Periodic" -> [j |-> 0]
      [] ab.kind = "Sporadic" -> [once |-> TRUE, j |-> 1]
      [] ab.kind = "Curve" ->
            [sum |-> 1, step_sizes |-> StepSizes(ab.min_distance), idx |-> 0]
      [] ab.kind = "ExtrapolatingCurve" ->
            IF can_extrapolate(pfx)
            THEN [mode |-> "extrapolating", dist |-> 0, njobs |-> 0]
            ELSE [mode |-> "periodic", period |-> min_distance(pfx, 2), j |-> 0]
      [] ab.kind = "ArrivalCurvePrefix" -> [once |-> TRUE, cycle |-> 0, idx |-> 0]
      [] ab.kind = "Never" -> [empty |-> TRUE]
      [] ab.kind = "Propagated" ->
            [once |-> TRUE, inner |-> StepsIterNew(ab.input_event_model, pfx)]

\* the filter of Sporadic::steps_iter: the first j from j0 on with
\* min_inter_arrival * j > jitter
RECURSIVE SporadicFilter(_, _)
SporadicFilter(ab, j0) ==
    IF ab.min_inter_arrival * j0 > ab.jitter THEN j0
    ELSE SporadicFilter(ab, j0 + 1)

\* StepsIter::advance of ExtrapolatingCurve::steps_iter
RECURSIVE Advance(_, _, _)
Advance(pfx, njobs, dist) ==
    IF min_distance(pfx, njobs) <= dist
    THEN Advance(extrapolate_steps(pfx, njobs + 1), njobs + 1, dist)
    ELSE [prefix |-> pfx, njobs |-> njobs, dist |-> min_distance(pfx, njobs)]

\* Iterator::next on the iterator steps_iter() returned: the value, the
\* iterator's next state and the ExtrapolatingCurve's prefix afterwards
RECURSIVE StepsIterNext(_, _, _)
StepsIterNext(ab, it, pfx) ==
    CASE ab.kind = "Periodic" ->
            [res |-> Some(ab.period * it.j + 1), it |-> [j |-> it.j + 1],
             prefix |-> pfx]
      [] ab.kind = "Sporadic" ->
            IF it.once
            THEN [res |-> Some(1), it |-> [it EXCEPT !.once = FALSE],
                  prefix |-> pfx]
            ELSE LET j == SporadicFilter(ab, it.j)
                 IN  [res |-> Some(ab.min_inter_arrival * j + 1 - ab.jitter),
                      it |-> [it EXCEPT !.j = j + 1], prefix |-> pfx]
      [] ab.kind = "Curve" ->
            IF it.step_sizes = <<>>
            THEN [res |-> IterPanic, it |-> it, prefix |-> pfx]
            ELSE [res |-> Some(it.sum),
                  it |-> [it EXCEPT !.sum = it.sum + it.step_sizes[it.idx + 1],
                                    !.idx = (it.idx + 1) % Len(it.step_sizes)],
                  prefix |-> pfx]
      [] ab.kind = "ExtrapolatingCurve" ->
            IF it.mode = "extrapolating"
            THEN LET a == Advance(pfx, it.njobs, it.dist)
                 IN  [res |-> Some(1 + it.dist),
                      it |-> [it EXCEPT !.njobs = a.njobs, !.dist = a.dist],
                      prefix |-> a.prefix]
            ELSE [res |-> Some(it.period * it.j + 1),
                  it |-> [it EXCEPT !.j = it.j + 1], prefix |-> pfx]
      [] ab.kind = "ArrivalCurvePrefix" ->
            IF it.once
            THEN [res |-> Some(0), it |-> [it EXCEPT !.once = FALSE],
                  prefix |-> pfx]
            ELSE IF ab.steps = <<>>
            THEN [res |-> Hang, it |-> it, prefix |-> pfx]
            ELSE [res |-> Some(ab.steps[it.idx + 1][1] + ab.horizon * it.cycle),
                  it |-> IF it.idx + 1 = Len(ab.steps)
                         THEN [it EXCEPT !.idx = 0, !.cycle = it.cycle + 1]
                         ELSE [it EXCEPT !.idx = it.idx + 1],
                  prefix |-> pfx]
      [] ab.kind = "Never" -> [res |-> None, it |-> it, prefix |-> pfx]
      [] ab.kind = "Propagated" ->
            IF it.once
            THEN [res |-> Some(1), it |-> [it EXCEPT !.once = FALSE],
                  prefix |-> pfx]
            ELSE LET n == StepsIterNext(ab.input_event_model, it.inner, pfx)
                     then == [it EXCEPT !.inner = n.it]
                 IN  IF n.res.kind # "Some"
                     THEN [res |-> n.res, it |-> then, prefix |-> n.prefix]
                     ELSE IF n.res.val > ab.response_time_jitter + 1
                     THEN [res |-> Some(n.res.val - ab.response_time_jitter),
                           it |-> then, prefix |-> n.prefix]
                     ELSE StepsIterNext(ab, then, n.prefix)

\* the arrival bound never reports an arrival, so that the filter of
\* brute_force_steps_iter never finds a step
RECURSIVE NeverArrives(_)
NeverArrives(ab) ==
    CASE ab.kind = "Never" -> TRUE
      [] ab.kind = "ArrivalCurvePrefix" -> ab.steps = <<>> /\ ab.horizon = 1
      [] ab.kind = "Propagated" -> NeverArrives(ab.input_event_model)
      [] OTHER -> FALSE

\* no job count has been computed yet
NoJobs == 0 - 2

\* brute_force_steps_iter(): the state of the fresh iterator: the next delta
\* to evaluate and the job count of the delta before it
BruteForceNew == [delta |-> 0, njobs |-> NoJobs]

\* Iterator::next on brute_force_steps_iter(): evaluate number_arrivals for
\* one delta after the other until the count differs from the one before
RECURSIVE BruteForceScan(_, _, _)
BruteForceScan(ab, it, pfx) ==
    LET njobs == number_arrivals(ab, it.delta, pfx)
        after == PrefixAfterQuery(ab, it.delta, pfx)
        then == [delta |-> it.delta + 1, njobs |-> njobs]
    IN  IF njobs = PanicJobs
        THEN [res |-> IterPanic, it |-> it, prefix |-> after]
        ELSE IF it.njobs # NoJobs /\ it.njobs # njobs
        THEN [res |-> Some(it.delta), it |-> then, prefix |-> after]
        ELSE BruteForceScan(ab, then, after)

BruteForceNext(ab, it, pfx) ==
    IF NeverArrives(ab) THEN [res |-> Hang, it |-> it, prefix |-> pfx]
    ELSE BruteForceScan(ab, it, pfx)

\* ------------------------------------------------------------- cost models

\* the value that stands for a panic inside a cost function
PanicCost == 0 - 1

\* Scalar::cost_of_jobs
Scalar_cost_of_jobs(c, n) == c.wcet * n

\* Scalar::least_wcet
Scalar_least_wcet(c, n) == IF n > 0 THEN c.wcet ELSE 0

\* Multiframe::job_cost_iter: the cost of the i-th job, i >= 1, of a
\* non-empty vector
Multiframe_job_cost(c, i) == c.costs[((i - 1) % Len(c.costs)) + 1]

\* JobCostModel::cost_of_jobs, which Multiframe inherits:
\* job_cost_iter().take(n).sum()
RECURSIVE Multiframe_cost_of_jobs(_, _)
Multiframe_cost_of_jobs(c, n) ==
    IF n = 0 \/ c.costs = <<>> THEN 0
    ELSE Multiframe_cost_of_jobs(c, n - 1) + Multiframe_job_cost(c, n)

\* Multiframe::least_wcet
Multiframe_least_wcet(c, n) ==
    LET taken == {c.costs[i] : i \in 1..Min(n, Len(c.costs))}
    IN  IF taken = {} THEN 0 ELSE MinOf(taken)

\* wcet::Curve::cost_of_jobs; wcet_of_n_jobs[k] of the source is w[k + 1]
WcetCurve_cost_of_jobs(w, n) ==
    IF w # <<>> /\ n > 0
    THEN LET x == n \div Len(w)
             y == n % Len(w)
             prefix == IF x > 0 THEN w[Len(w)] * x ELSE 0
             suffix == IF y > 0 THEN w[y] ELSE 0
         IN  prefix + suffix
    ELSE 0

\* whether one of the subtractions of Curve::least_wcet overflows
LeastWcetOverflows(w, n) ==
    /\ n > 0
    /\ \E i \in 1..(Min(Len(w), n) - 1) : SubOverflows(w[i + 1], w[i])

\* wcet::Curve::least_wcet; indexing an empty vector panics
WcetCurve_least_wcet(w, n) ==
    IF n > 0
    THEN IF w = <<>> THEN PanicCost
         ELSE MinOf({w[1]} \cup {WrappingSub(w[i + 1], w[i]) :
                                    i \in 1..(Min(Len(w), n) - 1)})
    ELSE 0

\* wcet::Curve::extrapolate_next
Wcet_extrapolate_next(w) ==
    LET n == Len(w)
    IN  MinOf({w[k + 1] + w[n - k] : k \in 0..(n \div 2)})

\* wcet::Curve::extrapolate, for n >= 1
RECURSIVE Wcet_extrapolate(_, _)
Wcet_extrapolate(w, n) ==
    IF Len(w) >= 3 /\ Len(w) < n - 1
    THEN Wcet_extrapolate(Append(w, Wcet_extrapolate_next(w)), n)
    ELSE w

\* the vector of the curve after cost_of_jobs(n): only the
\* ExtrapolatingCurve extends it
CostsAfterCall(c, w, n) ==
    IF c.kind = "ExtrapolatingCurve" THEN Wcet_extrapolate(w, n + 1) ELSE w

\* cost_of_jobs of an ExtrapolatingCurve that answers from the cached
\* vector as it is
cost_of_jobs_Cached(c, w, n) ==
    CASE c.kind = "Scalar" -> Scalar_cost_of_jobs(c, n)
      [] c.kind = "Multiframe" -> Multiframe_cost_of_jobs(c, n)
      [] OTHER -> WcetCurve_cost_of_jobs(w, n)

\* JobCostModel::cost_of_jobs, dispatched on the implementing type; w is
\* the current vector of a curve
cost_of_jobs(c, w, n) ==
    CASE c.kind = "Scalar" -> Scalar_cost_of_jobs(c, n)
      [] c.kind = "Multiframe" -> Multiframe_cost_of_jobs(c, n)
      [] c.kind = "Curve" -> WcetCurve_cost_of_jobs(w, n)
      [] c.kind = "ExtrapolatingCurve" ->
            WcetCurve_cost_of_jobs(Wcet_extrapolate(w, n + 1), n)

\* JobCostModel::least_wcet, dispatched on the implementing type
least_wcet(c, w, n) ==
    CASE c.kind = "Scalar" -> Scalar_least_wcet(c, n)
      [] c.kind = "Multiframe" -> Multiframe_least_wcet(c, n)
      [] c.kind = "Curve" -> WcetCurve_least_wcet(w, n)
      [] c.kind = "ExtrapolatingCurve" -> WcetCurve_least_wcet(w, n)

\* Iterator::next of job_cost_iter() for the i-th job, i >= 1: the two
\* operands of the subtraction of the curves (a value and zero for the
\* other models), whether the iterator is exhausted, and the vector of the
\* curve afterwards
JobCostNext(c, w, i) ==
    CASE c.kind = "Scalar" ->
            [done |-> FALSE, minuend |-> c.wcet, subtrahend |-> 0, costs |-> w]
      [] c.kind = "Multiframe" ->
            IF c.costs = <<>>
            THEN [done |-> TRUE, minuend |-> 0, subtrahend |-> 0, costs |-> w]
            ELSE [done |-> FALSE, minuend |-> Multiframe_job_cost(c, i),
                  subtrahend |-> 0, costs |-> w]
      [] c.kind \in {"Curve", "ExtrapolatingCurve"} ->
            LET w1 == CostsAfterCall(c, w, i)
                w2 == CostsAfterCall(c, w1, i - 1)
            IN  [done |-> FALSE, minuend |-> cost_of_jobs(c, w, i),
                 subtrahend |-> cost_of_jobs(c, w1, i - 1), costs |-> w2]

VARIABLES
    supply,                 \* search_with_offset: the supply bound
    offset,                 \* search_with_offset: the offset
    divergence_limit,       \* search_with_offset: the divergence limit
    workload,               \* search_with_offset: the right-hand side
    assumed_response_time,  \* search_with_offset: the loop variable
    evaluations,            \* how often the workload was evaluated
    pc,                     \* "loop" or "done"
    result,                 \* what search_with_offset returned
    rta_per_offset,         \* max_response_time: the results still to come
    consumed,               \* max_response_time: the results already taken
    best,                   \* max_response_time: the accumulator of max_by
    max_pc,                 \* "fold" or "done"
    max_result,             \* what max_response_time returned
    arrival_bound,          \* the arrival bound whose steps are iterated
    prefix,                 \* the RefCell of the ExtrapolatingCurve in it
    steps_it,               \* the iterator steps_iter() returned
    bf_it,                  \* the iterator brute_force_steps_iter() returned
    steps_yielded,          \* what steps_it.next() has returned so far
    bf_yielded,             \* what bf_it.next() has returned so far
    debug_assertions,       \* bound_response_time: is it a debug build?
    bound_supply,           \* bound_response_time: supply
    request_bound,          \* bound_response_time: the arrival bound of demand
    limit,                  \* bound_response_time: limit
    bw,                     \* what search returned for the busy window
    demand_steps,           \* the iterator demand.steps_iter() returned
    offsets,                \* the offsets the closure of rta_bounds was run on
    rta_bounds,             \* what the closure returned for them
    folded,                 \* the accumulator of max_by
    bound_pc,               \* "search", "offsets" or "done"
    bound_result,           \* what bound_response_time returned
    queried_bound,          \* the arrival bound that is queried
    initial_prefix,         \* the delta-min prefix its ExtrapolatingCurve was built from
    cached_prefix,          \* the RefCell of its ExtrapolatingCurve now
    answer,                 \* the last query: <<delta, number_arrivals(delta)>>
    components,             \* the arrival bounds of a Vec, a slice or a SumOf
    merged_it,              \* the iterator its steps_iter() returned
    merged_yielded,         \* what merged_it.next() has returned so far
    sbf,                    \* the supply bound that is asked
    service_time_call,      \* the last call: <<demand, service_time(demand)>>
    provided_service_call,  \* the last call: <<delta, provided_service(delta)>>
    cost_model,             \* the cost model under test
    initial_costs,          \* the vector a curve was constructed with
    costs,                  \* the current vector of a curve
    job_costs_yielded,      \* what job_cost_iter() has yielded so far
    cost_call,              \* the last call of cost_of_jobs or least_wcet
    rb,                     \* the request bound under test
    rb_steps_it,            \* the state of its steps_iter()
    rb_steps_yielded,       \* what its steps_iter() has yielded so far
    rb_offsets_it,          \* the state of the steps_iter() inside step_offsets()
    rb_offsets_yielded,     \* what step_offsets() has yielded so far
    policy,                 \* the analysis: FIFO, fully or limited-preemptive fixed priority
    tua,                    \* the RBF of the task under analysis
    others,                 \* the RBFs of the interfering tasks
    rta_limit,              \* the divergence limit
    checked,                \* whether the build checks arithmetic and debug assertions
    rta_pc,                 \* where dedicated_uniproc_rta stands
    rta_L,                      \* the bound on the busy window
    space_it,               \* the state of step_offsets() of the search space
    rta_A,                      \* the offset under analysis
    rta_AF,                     \* the fixed point found for the offset
    largest,                \* the accumulator of the maximum over the offsets
    rta_result,             \* what dedicated_uniproc_rta returns
    st_sbf,                 \* default service_time: the supply bound relying on it
    st_demand,              \* default service_time: the demand
    st_t,                   \* default service_time: the loop variable t
    st_pc,                  \* "loop" or "done"
    st_result,              \* what the default service_time returned
    ex_md,                  \* the min_distance vector of the ExtrapolatingCurve
    ex_it,                  \* the StepsIter over it: its dist and njobs, or its j
    ex_call,                \* the call in progress or returned last
    ex_pc,                  \* "ready", "extrapolate", "advance" or "aborted"
    ex_calls                \* how many calls were made

searchVars == <<supply, offset, divergence_limit, workload,
                assumed_response_time, evaluations, pc, result>>

maxVars == <<rta_per_offset, consumed, best, max_pc, max_result>>

stepsVars == <<arrival_bound, prefix, steps_it, bf_it, steps_yielded,
               bf_yielded>>

boundVars == <<debug_assertions, bound_supply, request_bound, limit, bw,
               demand_steps, offsets, rta_bounds, folded, bound_pc,
               bound_result>>

queryVars == <<queried_bound, initial_prefix, cached_prefix, answer>>

mergeVars == <<components, merged_it, merged_yielded>>

supplyVars == <<sbf, service_time_call, provided_service_call>>

costVars == <<cost_model, initial_costs, costs, job_costs_yielded, cost_call>>

requestVars == <<rb, rb_steps_it, rb_steps_yielded, rb_offsets_it, rb_offsets_yielded>>

rtaVars == <<policy, tua, others, rta_limit, checked, rta_pc, rta_L, space_it, rta_A, rta_AF, largest, rta_result>>

defaultVars == <<st_sbf, st_demand, st_t, st_pc, st_result>>

extrapolationVars == <<ex_md, ex_it, ex_call, ex_pc, ex_calls>>

vars == <<searchVars, maxVars, stepsVars, boundVars, queryVars, mergeVars, supplyVars, costVars, requestVars, rtaVars, defaultVars, extrapolationVars>>

notSearchVars == <<maxVars, stepsVars, boundVars, queryVars, mergeVars, supplyVars, costVars, requestVars, rtaVars, defaultVars, extrapolationVars>>

notMaxVars == <<searchVars, stepsVars, boundVars, queryVars, mergeVars, supplyVars, costVars, requestVars, rtaVars, defaultVars, extrapolationVars>>

notStepsVars == <<searchVars, maxVars, boundVars, queryVars, mergeVars, supplyVars, costVars, requestVars, rtaVars, defaultVars, extrapolationVars>>

notBoundVars == <<searchVars, maxVars, stepsVars, queryVars, mergeVars, supplyVars, costVars, requestVars, rtaVars, defaultVars, extrapolationVars>>

notQueryVars == <<searchVars, maxVars, stepsVars, boundVars, mergeVars, supplyVars, costVars, requestVars, rtaVars, defaultVars, extrapolationVars>>

notMergeVars == <<searchVars, maxVars, stepsVars, boundVars, queryVars, supplyVars, costVars, requestVars, rtaVars, defaultVars, extrapolationVars>>

notSupplyVars == <<searchVars, maxVars, stepsVars, boundVars, queryVars, mergeVars, costVars, requestVars, rtaVars, defaultVars, extrapolationVars>>

notCostVars == <<searchVars, maxVars, stepsVars, boundVars, queryVars, mergeVars, supplyVars, requestVars, rtaVars, defaultVars, extrapolationVars>>

notRequestVars == <<searchVars, maxVars, stepsVars, boundVars, queryVars, mergeVars, supplyVars, costVars, rtaVars, defaultVars, extrapolationVars>>

notRtaVars == <<searchVars, maxVars, stepsVars, boundVars, queryVars, mergeVars, supplyVars, costVars, requestVars, defaultVars, extrapolationVars>>

notDefaultVars == <<searchVars, maxVars, stepsVars, boundVars, queryVars, mergeVars, supplyVars, costVars, requestVars, rtaVars, extrapolationVars>>

notExtrapolationVars == <<searchVars, maxVars, stepsVars, boundVars, queryVars, mergeVars, supplyVars, costVars, requestVars, rtaVars, defaultVars>>

\* no call of search_with_offset is modelled
SearchIdle ==
    /\ supply = Dedicated
    /\ offset = 0
    /\ divergence_limit = 0
    /\ workload = <<>>
    /\ assumed_response_time = 0
    /\ evaluations = 0
    /\ pc = "idle"
    /\ result = Pending

\* no call of max_response_time is modelled
MaxIdle ==
    /\ rta_per_offset = <<>>
    /\ consumed = <<>>
    /\ best = Pending
    /\ max_pc = "idle"
    /\ max_result = Pending

\* no step iterator is modelled
StepsIdle ==
    /\ arrival_bound = [kind |-> "Never"]
    /\ prefix = <<>>
    /\ steps_it = [empty |-> TRUE]
    /\ bf_it = BruteForceNew
    /\ steps_yielded = <<>>
    /\ bf_yielded = <<>>

\* no call of bound_response_time is modelled
BoundIdle ==
    /\ debug_assertions = FALSE
    /\ bound_supply = Dedicated
    /\ request_bound = [kind |-> "Never"]
    /\ limit = 0
    /\ bw = Pending
    /\ demand_steps = [empty |-> TRUE]
    /\ offsets = <<>>
    /\ rta_bounds = <<>>
    /\ folded = Pending
    /\ bound_pc = "idle"
    /\ bound_result = Pending

QueryIdle ==
    /\ queried_bound = [kind |-> "Never"]
    /\ initial_prefix = <<>>
    /\ cached_prefix = <<>>
    /\ answer = <<>>

MergeIdle ==
    /\ components = <<>>
    /\ merged_it = <<>>
    /\ merged_yielded = <<>>

SupplyIdle ==
    /\ sbf = Dedicated
    /\ service_time_call = <<>>
    /\ provided_service_call = <<>>

CostIdle ==
    /\ cost_model = [kind |-> "Scalar", wcet |-> 0]
    /\ initial_costs = <<>>
    /\ costs = <<>>
    /\ job_costs_yielded = <<>>
    /\ cost_call = <<>>

RequestIdle ==
    /\ rb = [kind |-> "Aggregate", individual |-> <<>>]
    /\ rb_steps_it = <<>>
    /\ rb_steps_yielded = <<>>
    /\ rb_offsets_it = <<>>
    /\ rb_offsets_yielded = <<>>

RtaIdle ==
    /\ policy = [kind |-> "fifo"]
    /\ tua = [kind |-> "RBF"]
    /\ others = <<>>
    /\ rta_limit = 0
    /\ checked = FALSE
    /\ rta_pc = "idle"
    /\ rta_L = 0
    /\ space_it = <<>>
    /\ rta_A = 0
    /\ rta_AF = 0
    /\ largest = Pending
    /\ rta_result = Pending

DefaultIdle ==
    /\ st_sbf = <<0>>
    /\ st_demand = 0
    /\ st_t = 0
    /\ st_pc = "idle"
    /\ st_result = Pending

ExtrapolationIdle ==
    /\ ex_md = <<>>
    /\ ex_it = <<>>
    /\ ex_call = <<>>
    /\ ex_pc = "idle"
    /\ ex_calls = 0

SearchInit ==
    /\ supply \in Supplies
    /\ offset \in 0..MaxOffset
    /\ divergence_limit \in 0..MaxLimit
    /\ workload \in Workloads
    /\ assumed_response_time = 1
    /\ evaluations = 0
    /\ pc = "loop"
    /\ result = Pending

\* one pass through the loop body that does not return
Iterate ==
    /\ pc = "loop"
    /\ LoopGuard(assumed_response_time, divergence_limit)
    /\ LET demand == workload[assumed_response_time]
           response_time_bound == ResponseTimeBound(supply, offset, demand)
       IN  /\ ~Converged(response_time_bound, assumed_response_time)
           /\ assumed_response_time' = response_time_bound
    /\ evaluations' = evaluations + 1
    /\ UNCHANGED <<supply, offset, divergence_limit, workload, pc, result>>
    /\ UNCHANGED notSearchVars

\* the pass through the loop body that returns Ok
Converge ==
    /\ pc = "loop"
    /\ LoopGuard(assumed_response_time, divergence_limit)
    /\ LET demand == workload[assumed_response_time]
           response_time_bound == ResponseTimeBound(supply, offset, demand)
       IN  /\ Converged(response_time_bound, assumed_response_time)
           /\ result' = Ok(response_time_bound)
    /\ evaluations' = evaluations + 1
    /\ pc' = "done"
    /\ UNCHANGED <<supply, offset, divergence_limit, workload,
                   assumed_response_time>>
    /\ UNCHANGED notSearchVars

\* the subtraction overflows in a build with overflow checks
SubtractPanics ==
    /\ pc = "loop"
    /\ LoopGuard(assumed_response_time, divergence_limit)
    /\ SubOverflows(service_time(supply, workload[assumed_response_time]), offset)
    /\ evaluations' = evaluations + 1
    /\ result' = Panicked
    /\ pc' = "done"
    /\ UNCHANGED <<supply, offset, divergence_limit, workload,
                   assumed_response_time>>
    /\ UNCHANGED notSearchVars

\* the loop exits: no fixed point below the limit
Diverge ==
    /\ pc = "loop"
    /\ ~LoopGuard(assumed_response_time, divergence_limit)
    /\ result' = DivergenceLimitExceeded(offset, divergence_limit)
    /\ pc' = "done"
    /\ UNCHANGED <<supply, offset, divergence_limit, workload,
                   assumed_response_time, evaluations>>
    /\ UNCHANGED notSearchVars

\* ------------------------------------------------------- max_response_time

\* Ord::cmp on Duration
Cmp(x, y) == IF x < y THEN "Less" ELSE IF x > y THEN "Greater" ELSE "Equal"

\* the closure with the first error losing against every later element
Compare_ErrorLoses(a, b) ==
    IF a.kind = "Err" THEN "Less"
    ELSE IF b.kind = "Err" THEN "Less"
    ELSE Cmp(a.val, b.val)

\* the closure with the values compared the wrong way round
Compare_Reversed(a, b) ==
    IF a.kind = "Err" THEN "Greater"
    ELSE IF b.kind = "Err" THEN "Less"
    ELSE Cmp(b.val, a.val)

\* the closure handed to max_by
Compare(a, b) ==
    IF a.kind = "Err" THEN "Greater"
    ELSE IF b.kind = "Err" THEN "Less"
    ELSE Cmp(a.val, b.val)

\* Iterator::max_by's fold: the accumulator x is kept only if it compares
\* Greater than the next element y
\* a fold that keeps the first element whatever comes after it
MaxByFold_KeepFirst(x, y) == x

MaxByFold(x, y) == IF Compare(x, y) = "Greater" THEN x ELSE y

\* the results a per-offset search can return
SearchResults ==
    {Ok(v) : v \in 0..MaxValue} \cup
    {DivergenceLimitExceeded(o, MaxLimit) : o \in 0..MaxOffset}

RECURSIVE SeqsUpTo(_, _)
SeqsUpTo(S, n) ==
    IF n = 0 THEN {<<>>}
    ELSE LET shorter == SeqsUpTo(S, n - 1)
         IN  shorter \cup {Append(q, x) : q \in {p \in shorter : Len(p) = n - 1},
                                          x \in S}

MaxInit ==
    /\ rta_per_offset \in SeqsUpTo(SearchResults, MaxResults)
    /\ consumed = <<>>
    /\ best = Pending
    /\ max_pc = "fold"
    /\ max_result = Pending

\* max_by takes the first element of the iterator
MaxByFirst ==
    /\ max_pc = "fold"
    /\ consumed = <<>>
    /\ rta_per_offset # <<>>
    /\ best' = Head(rta_per_offset)
    /\ consumed' = <<Head(rta_per_offset)>>
    /\ rta_per_offset' = Tail(rta_per_offset)
    /\ UNCHANGED <<max_pc, max_result>>
    /\ UNCHANGED notMaxVars

\* max_by folds the next element into the accumulator
MaxByNext ==
    /\ max_pc = "fold"
    /\ consumed # <<>>
    /\ rta_per_offset # <<>>
    /\ best' = MaxByFold(best, Head(rta_per_offset))
    /\ consumed' = Append(consumed, Head(rta_per_offset))
    /\ rta_per_offset' = Tail(rta_per_offset)
    /\ UNCHANGED <<max_pc, max_result>>
    /\ UNCHANGED notMaxVars

\* the iterator is exhausted: unwrap_or(Ok(0))
MaxByEnd ==
    /\ max_pc = "fold"
    /\ rta_per_offset = <<>>
    /\ max_result' = IF consumed = <<>> THEN Ok(0) ELSE best
    /\ max_pc' = "done"
    /\ UNCHANGED <<rta_per_offset, consumed, best>>
    /\ UNCHANGED notMaxVars

Init == SearchInit /\ MaxIdle /\ StepsIdle /\ BoundIdle /\ QueryIdle /\ MergeIdle /\ SupplyIdle /\ CostIdle /\ RequestIdle /\ RtaIdle /\ DefaultIdle /\ ExtrapolationIdle

Next == Iterate \/ Converge \/ SubtractPanics \/ Diverge

Spec == Init /\ [][Next]_vars

\* the loop is sequential code: a step that can be taken is taken
LiveSpec == Spec /\ WF_vars(Next)

MaxSpecInit == SearchIdle /\ MaxInit /\ StepsIdle /\ BoundIdle /\ QueryIdle /\ MergeIdle /\ SupplyIdle /\ CostIdle /\ RequestIdle /\ RtaIdle /\ DefaultIdle /\ ExtrapolationIdle

MaxNext == MaxByFirst \/ MaxByNext \/ MaxByEnd

\* max_response_time applied to every sequence of results within the bounds
MaxSpec == MaxSpecInit /\ [][MaxNext]_vars

\* ------------------------------------------------ steps_iter, step by step

\* the monotone delta-min vectors (from_iter makes them monotone, from_trace
\* and from_arrival_bound produce them monotone) whose largest distance is
\* positive
DeltaMinPrefixes ==
    UNION {{md \in [1..n -> 0..MaxDistance] :
               /\ \A i \in 1..(n - 1) : md[i] <= md[i + 1]
               /\ md[n] >= 1} : n \in 1..MaxPrefixLen}

\* the step lists ArrivalCurvePrefix::new accepts for a horizon, with
\* increasing deltas
PrefixSteps(horizon) ==
    UNION {{st \in [1..n -> (1..horizon) \X (1..MaxJobs)] :
               \A i \in 1..(n - 1) : /\ st[i][1] < st[i + 1][1]
                                     /\ st[i][2] < st[i + 1][2]}
           : n \in 0..MaxPrefixSteps}

PeriodicArrivals == {[kind |-> "Periodic", period |-> p] : p \in 1..MaxPeriod}

SporadicArrivals ==
    {[kind |-> "Sporadic", min_inter_arrival |-> t, jitter |-> j] :
        t \in 1..MaxPeriod, j \in 0..MaxJitter}

Curves == {[kind |-> "Curve", min_distance |-> md] : md \in DeltaMinPrefixes}

ExtrapolatingCurve == [kind |-> "ExtrapolatingCurve"]

ArrivalCurvePrefixes ==
    UNION {{[kind |-> "ArrivalCurvePrefix", horizon |-> h, steps |-> st] :
               st \in PrefixSteps(h)} : h \in 1..MaxHorizon}

Never == [kind |-> "Never"]

\* the arrival models that are not wrapped
PlainArrivals ==
    PeriodicArrivals \cup SporadicArrivals \cup Curves
        \cup {ExtrapolatingCurve} \cup ArrivalCurvePrefixes \cup {Never}

\* Propagated::with_jitter
PropagatedArrivals ==
    {[kind |-> "Propagated", input_event_model |-> in,
      response_time_jitter |-> j] : in \in PlainArrivals, j \in 0..MaxJitter}

ArrivalBounds == PlainArrivals \cup PropagatedArrivals

RECURSIVE HasExtrapolatingCurve(_)
HasExtrapolatingCurve(ab) ==
    CASE ab.kind = "ExtrapolatingCurve" -> TRUE
      [] ab.kind = "Propagated" -> HasExtrapolatingCurve(ab.input_event_model)
      [] OTHER -> FALSE

\* an arrival bound, and the two iterators over its steps, fresh
StepsInit ==
    /\ arrival_bound \in ArrivalBounds
    /\ prefix \in IF HasExtrapolatingCurve(arrival_bound)
                  THEN DeltaMinPrefixes ELSE {<<>>}
    /\ steps_it = StepsIterNew(arrival_bound, prefix)
    /\ bf_it = BruteForceNew
    /\ steps_yielded = <<>>
    /\ bf_yielded = <<>>

\* the caller may ask an iterator for another value
MayPull(yielded) ==
    /\ Len(yielded) < MaxSteps
    /\ yielded # <<>> => Last(yielded).kind = "Some"

\* steps_iter().next()
StepsIterPull ==
    /\ MayPull(steps_yielded)
    /\ LET n == StepsIterNext(arrival_bound, steps_it, prefix)
       IN  /\ steps_yielded' = Append(steps_yielded, n.res)
           /\ steps_it' = n.it
           /\ prefix' = n.prefix
    /\ UNCHANGED <<arrival_bound, bf_it, bf_yielded>>
    /\ UNCHANGED notStepsVars

\* brute_force_steps_iter().next()
BruteForcePull ==
    /\ MayPull(bf_yielded)
    /\ LET n == BruteForceNext(arrival_bound, bf_it, prefix)
       IN  /\ bf_yielded' = Append(bf_yielded, n.res)
           /\ bf_it' = n.it
           /\ prefix' = n.prefix
    /\ UNCHANGED <<arrival_bound, steps_it, steps_yielded>>
    /\ UNCHANGED notStepsVars

StepsSpecInit == SearchIdle /\ MaxIdle /\ StepsInit /\ BoundIdle /\ QueryIdle /\ MergeIdle /\ SupplyIdle /\ CostIdle /\ RequestIdle /\ RtaIdle /\ DefaultIdle /\ ExtrapolationIdle

StepsNext == StepsIterPull \/ BruteForcePull

\* both step iterators of every arrival bound within the bounds, pulled in
\* any interleaving
StepsSpec == StepsSpecInit /\ [][StepsNext]_vars

\* ------------------------------------------- number_arrivals, query by query

QueryInit ==
    /\ queried_bound \in ArrivalBounds
    /\ initial_prefix \in IF HasExtrapolatingCurve(queried_bound)
                          THEN DeltaMinPrefixes ELSE {<<>>}
    /\ cached_prefix = initial_prefix
    /\ answer = <<>>

\* number_arrivals(delta), unless an earlier call panicked
Query ==
    /\ answer # <<>> => answer[2] # PanicJobs
    /\ \E delta \in 0..MaxDelta :
          /\ answer' = <<delta, number_arrivals(queried_bound, delta,
                                                cached_prefix)>>
          /\ cached_prefix' = PrefixAfterQuery(queried_bound, delta,
                                               cached_prefix)
    /\ UNCHANGED <<queried_bound, initial_prefix>>
    /\ UNCHANGED notQueryVars

QuerySpecInit == SearchIdle /\ MaxIdle /\ StepsIdle /\ BoundIdle /\ QueryInit /\ MergeIdle /\ SupplyIdle /\ CostIdle /\ RequestIdle /\ RtaIdle /\ DefaultIdle /\ ExtrapolationIdle

QueryNext == Query

\* number_arrivals of every arrival bound within the bounds, asked any
\* number of times in any order
QuerySpec == QuerySpecInit /\ [][QueryNext]_vars

\* -------------------------------------------- supply bounds, call by call

\* an interval long enough for every service time that is asked for
MaxInterval == MaxPeriod * (MaxDemand + 2)

SupplyInit ==
    /\ sbf \in Supplies
    /\ service_time_call = <<>>
    /\ provided_service_call = <<>>

\* sbf.service_time(demand)
CallServiceTime ==
    /\ \E demand \in 0..MaxDemand :
          service_time_call' = <<demand, service_time(sbf, demand)>>
    /\ UNCHANGED <<sbf, provided_service_call>>
    /\ UNCHANGED notSupplyVars

\* sbf.provided_service(delta)
CallProvidedService ==
    /\ \E delta \in 0..MaxInterval :
          provided_service_call' = <<delta, provided_service(sbf, delta)>>
    /\ UNCHANGED <<sbf, service_time_call>>
    /\ UNCHANGED notSupplyVars

SupplySpecInit == SearchIdle /\ MaxIdle /\ StepsIdle /\ BoundIdle /\ QueryIdle /\ MergeIdle /\ SupplyInit /\ CostIdle /\ RequestIdle /\ RtaIdle /\ DefaultIdle /\ ExtrapolationIdle

SupplyNext == CallServiceTime \/ CallProvidedService

\* the two functions of every supply bound within the bounds, called in
\* any order
SupplySpec == SupplySpecInit /\ [][SupplyNext]_vars

\* ------------------------------------- steps_iter of a Vec, slice or SumOf

\* number_arrivals of a Vec, slice or SumOf: the sum over the components
RECURSIVE Sum_number_arrivals(_, _)
Sum_number_arrivals(abs, delta) ==
    IF abs = <<>> THEN 0
    ELSE AddJobs(number_arrivals(Head(abs), delta, <<>>),
                 Sum_number_arrivals(Tail(abs), delta))

\* kmerge() (and merge()): the first value of every component is pulled
KMergeNew(abs) ==
    LET first(i) == StepsIterNext(abs[i], StepsIterNew(abs[i], <<>>), <<>>)
    IN  [its |-> [i \in 1..Len(abs) |-> first(i).it],
         heads |-> [i \in 1..Len(abs) |-> first(i).res]]

\* Iterator::next of kmerge(): the least head, replaced by the next value
\* of the component it came from; st.last is carried along unchanged
KMergeNext(abs, st) ==
    LET stuck == {i \in 1..Len(abs) : st.heads[i].kind \in {"Hang", "Panic"}}
        live == {i \in 1..Len(abs) : st.heads[i].kind = "Some"}
    IN  IF stuck # {}
        THEN [res |-> st.heads[MinOf(stuck)], st |-> st]
        ELSE IF live = {} THEN [res |-> None, st |-> st]
        ELSE LET least == MinOf({st.heads[i].val : i \in live})
                 i == MinOf({k \in live : st.heads[k].val = least})
                 n == StepsIterNext(abs[i], st.its[i], <<>>)
             IN  [res |-> Some(least),
                  st |-> [st EXCEPT !.its[i] = n.it, !.heads[i] = n.res]]

\* no value is held back by dedup()
NoLast == [kind |-> "NoLast"]

\* steps_iter(): kmerge().dedup()
MergedNew(abs) ==
    LET k == KMergeNew(abs)
    IN  [its |-> k.its, heads |-> k.heads, last |-> NoLast]

\* Iterator::next of dedup(): pull until a value differs from the one held
\* back, yield the one held back and hold back the new one
RECURSIVE MergedNext(_, _)
MergedNext(abs, st) ==
    LET n == KMergeNext(abs, st)
    IN  IF st.last.kind = "None" THEN [res |-> None, st |-> st]
        ELSE IF n.res.kind \in {"Hang", "Panic"} THEN [res |-> n.res, st |-> st]
        ELSE IF st.last.kind = "NoLast"
        THEN IF n.res.kind = "None"
             THEN [res |-> None, st |-> [st EXCEPT !.last = None]]
             ELSE MergedNext(abs, [n.st EXCEPT !.last = n.res])
        ELSE IF n.res.kind = "None"
        THEN [res |-> st.last, st |-> [st EXCEPT !.last = None]]
        ELSE IF n.res.val = st.last.val THEN MergedNext(abs, n.st)
        ELSE [res |-> st.last, st |-> [n.st EXCEPT !.last = n.res]]

\* the arrival bounds put into a Vec, slice or SumOf
Components ==
    PeriodicArrivals \cup SporadicArrivals \cup Curves
        \cup ArrivalCurvePrefixes \cup {Never}

MergeInit ==
    /\ components \in UNION {[1..n -> Components] : n \in 1..MaxComponents}
    /\ merged_it = MergedNew(components)
    /\ merged_yielded = <<>>

\* steps_iter().next() on the Vec, slice or SumOf
MergedPull ==
    /\ MayPull(merged_yielded)
    /\ LET n == MergedNext(components, merged_it)
       IN  /\ merged_yielded' = Append(merged_yielded, n.res)
           /\ merged_it' = n.st
    /\ UNCHANGED components
    /\ UNCHANGED notMergeVars

MergeSpecInit == SearchIdle /\ MaxIdle /\ StepsIdle /\ BoundIdle /\ QueryIdle /\ MergeInit /\ SupplyIdle /\ CostIdle /\ RequestIdle /\ RtaIdle /\ DefaultIdle /\ ExtrapolationIdle

MergeNext == MergedPull

\* the merged step iterator of every Vec, slice or SumOf within the bounds
MergeSpec == MergeSpecInit /\ [][MergeNext]_vars

\* ------------------------------------------------- cost models, call by call

\* the vectors Curve::from_iter produces: non-decreasing
CostVectors ==
    UNION {{w \in [1..n -> 0..MaxCost] : \A i \in 1..(n - 1) : w[i] <= w[i + 1]}
           : n \in 0..MaxCostLen}

ScalarCosts == {[kind |-> "Scalar", wcet |-> c] : c \in 0..MaxCost}

MultiframeCosts ==
    {[kind |-> "Multiframe", costs |-> cs] : cs \in SeqsUpTo(0..MaxCost, MaxFrames)}

CostModels ==
    ScalarCosts \cup MultiframeCosts
        \cup {[kind |-> "Curve"], [kind |-> "ExtrapolatingCurve"]}

IsCostCurve == cost_model.kind \in {"Curve", "ExtrapolatingCurve"}

CostInit ==
    /\ cost_model \in CostModels
    /\ initial_costs \in CostVectors
    /\ cost_model.kind \in {"Scalar", "Multiframe"} => initial_costs = <<>>
    /\ costs = initial_costs
    /\ job_costs_yielded = <<>>
    /\ cost_call = <<>>

\* Curve::extrapolate(n) on a curve the caller still owns: before an
\* iterator borrows it and before it is queried
Extrapolate ==
    /\ cost_model.kind = "Curve"
    /\ job_costs_yielded = <<>>
    /\ cost_call = <<>>
    /\ \E n \in 1..(MaxN + 1) : costs' = Wcet_extrapolate(costs, n)
    /\ UNCHANGED <<cost_model, initial_costs, job_costs_yielded, cost_call>>
    /\ UNCHANGED notCostVars

MayPullJobCost ==
    /\ Len(job_costs_yielded) < MaxN
    /\ job_costs_yielded # <<>> =>
           job_costs_yielded[Len(job_costs_yielded)].kind = "Some"

\* job_cost_iter().next(): the subtraction does not overflow, or the build
\* has no overflow checks and it wraps
PullJobCost ==
    /\ MayPullJobCost
    /\ LET r == JobCostNext(cost_model, costs, Len(job_costs_yielded) + 1)
       IN  /\ job_costs_yielded' =
                  Append(job_costs_yielded,
                         IF r.done THEN None
                         ELSE Some(WrappingSub(r.minuend, r.subtrahend)))
           /\ costs' = r.costs
    /\ UNCHANGED <<cost_model, initial_costs, cost_call>>
    /\ UNCHANGED notCostVars

\* job_cost_iter().next() in a build with overflow checks: the subtraction
\* overflows and panics
JobCostPanics ==
    /\ MayPullJobCost
    /\ LET r == JobCostNext(cost_model, costs, Len(job_costs_yielded) + 1)
       IN  /\ ~r.done
           /\ SubOverflows(r.minuend, r.subtrahend)
           /\ job_costs_yielded' = Append(job_costs_yielded, IterPanic)
           /\ costs' = r.costs
    /\ UNCHANGED <<cost_model, initial_costs, cost_call>>
    /\ UNCHANGED notCostVars

\* cost_of_jobs(n)
CallCostOfJobs ==
    /\ \E n \in 0..MaxN :
           /\ cost_call' = <<"cost_of_jobs", n, cost_of_jobs(cost_model, costs, n)>>
           /\ costs' = CostsAfterCall(cost_model, costs, n)
    /\ UNCHANGED <<cost_model, initial_costs, job_costs_yielded>>
    /\ UNCHANGED notCostVars

\* least_wcet(n): no subtraction overflows, or the build has no overflow
\* checks
CallLeastWcet ==
    /\ \E n \in 0..MaxN :
           cost_call' = <<"least_wcet", n, least_wcet(cost_model, costs, n)>>
    /\ UNCHANGED <<cost_model, initial_costs, costs, job_costs_yielded>>
    /\ UNCHANGED notCostVars

\* least_wcet(n) of a curve in a build with overflow checks: a subtraction
\* overflows and panics
LeastWcetPanics ==
    /\ IsCostCurve
    /\ \E n \in 0..MaxN :
           /\ LeastWcetOverflows(costs, n)
           /\ cost_call' = <<"least_wcet", n, PanicCost>>
    /\ UNCHANGED <<cost_model, initial_costs, costs, job_costs_yielded>>
    /\ UNCHANGED notCostVars

CostSpecInit == SearchIdle /\ MaxIdle /\ StepsIdle /\ BoundIdle /\ QueryIdle /\ MergeIdle /\ SupplyIdle /\ CostInit /\ RequestIdle /\ RtaIdle /\ DefaultIdle /\ ExtrapolationIdle

CostNext ==
    Extrapolate \/ PullJobCost \/ JobCostPanics \/ CallCostOfJobs
        \/ CallLeastWcet \/ LeastWcetPanics

CostSpec == CostSpecInit /\ [][CostNext]_vars

\* ------------------------------- the two lazily extrapolating curves

\* one of the two lazily extrapolating curves, fresh: the arrival curve or
\* the cost curve
LazyInit ==
    \/ /\ QueryInit
       /\ queried_bound.kind = "ExtrapolatingCurve"
       /\ CostIdle
    \/ /\ QueryIdle
       /\ CostInit
       /\ cost_model.kind = "ExtrapolatingCurve"

\* ExtrapolatingCurve::number_arrivals(delta) of the arrival curve
LazyNumberArrivals ==
    /\ queried_bound.kind = "ExtrapolatingCurve"
    /\ Query

\* ExtrapolatingCurve::cost_of_jobs(n) of the cost curve
LazyCostOfJobs ==
    /\ cost_model.kind = "ExtrapolatingCurve"
    /\ CallCostOfJobs

LazySpecInit == SearchIdle /\ MaxIdle /\ StepsIdle /\ BoundIdle /\ MergeIdle /\ SupplyIdle /\ LazyInit /\ RequestIdle /\ RtaIdle /\ DefaultIdle /\ ExtrapolationIdle

LazyNext == LazyNumberArrivals \/ LazyCostOfJobs

LazySpec == LazySpecInit /\ [][LazyNext]_vars

\* ----------------------------------------- request bounds, step by step

\* the vector of a cost curve held by an RBF
VectorOf(c) == IF c.kind = "Curve" THEN c.wcet_of_n_jobs ELSE <<>>

\* RBF::service_needed; a panic of number_arrivals is passed on
RBF_service_needed(r, delta) ==
    LET n == number_arrivals(r.arrival_bound, delta, <<>>)
    IN  IF n = PanicJobs THEN PanicCost
        ELSE cost_of_jobs(r.wcet, VectorOf(r.wcet), n)

\* the RBFs an Aggregate or a Slice holds
Individual(r) == IF r.kind = "Aggregate" THEN r.individual ELSE r.slice

\* Aggregate::service_needed and Slice::service_needed: the sum over the
\* components
RECURSIVE Sum_service_needed(_, _)
Sum_service_needed(rbfs, delta) ==
    IF rbfs = <<>> THEN 0
    ELSE LET a == RBF_service_needed(Head(rbfs), delta)
             b == Sum_service_needed(Tail(rbfs), delta)
         IN  IF a = PanicCost \/ b = PanicCost THEN PanicCost ELSE a + b

\* RequestBound::service_needed, dispatched on the implementing type
service_needed(r, delta) ==
    IF r.kind = "RBF" THEN RBF_service_needed(r, delta)
    ELSE Sum_service_needed(Individual(r), delta)

\* the arrival bounds of the RBFs an Aggregate or a Slice holds
ArrivalsOf(rbfs) == [i \in 1..Len(rbfs) |-> rbfs[i].arrival_bound]

\* RequestBound::steps_iter: that of the arrival bound for an RBF,
\* kmerge().dedup() over those of the components otherwise
RequestStepsNew(r) ==
    IF r.kind = "RBF" THEN StepsIterNew(r.arrival_bound, <<>>)
    ELSE MergedNew(ArrivalsOf(Individual(r)))

\* Iterator::next of RequestBound::steps_iter
RequestStepsNext(r, it) ==
    IF r.kind = "RBF"
    THEN LET n == StepsIterNext(r.arrival_bound, it, <<>>)
         IN  [res |-> n.res, it |-> n.it]
    ELSE LET n == MergedNext(ArrivalsOf(Individual(r)), it)
         IN  [res |-> n.res, it |-> n.st]

\* the cost models of an RBF; a curve carries its vector
RequestCosts ==
    ScalarCosts \cup MultiframeCosts
        \cup {[kind |-> "Curve", wcet_of_n_jobs |-> w] : w \in CostVectors}

\* a single RBF over any arrival bound and any cost model
RBFs ==
    {[kind |-> "RBF", wcet |-> c, arrival_bound |-> ab] :
        c \in RequestCosts, ab \in Components}

\* the RBFs put into an Aggregate or a Slice
IndividualRBFs ==
    {[kind |-> "RBF", wcet |-> c, arrival_bound |-> ab] :
        c \in ScalarCosts,
        ab \in PeriodicArrivals \cup SporadicArrivals \cup {Never}}

Aggregates ==
    {[kind |-> "Aggregate", individual |-> rbfs] :
        rbfs \in SeqsUpTo(IndividualRBFs, MaxComponents)}

Slices ==
    {[kind |-> "Slice", slice |-> rbfs] :
        rbfs \in SeqsUpTo(IndividualRBFs, MaxComponents)}

RequestInit ==
    /\ rb \in RBFs \cup Aggregates \cup Slices
    /\ rb_steps_it = RequestStepsNew(rb)
    /\ rb_steps_yielded = <<>>
    /\ rb_offsets_it = RequestStepsNew(rb)
    /\ rb_offsets_yielded = <<>>

\* steps_iter().next() on the request bound
RequestStepsPull ==
    /\ MayPull(rb_steps_yielded)
    /\ LET n == RequestStepsNext(rb, rb_steps_it)
       IN  /\ rb_steps_yielded' = Append(rb_steps_yielded, n.res)
           /\ rb_steps_it' = n.it
    /\ UNCHANGED <<rb, rb_offsets_it, rb_offsets_yielded>>
    /\ UNCHANGED notRequestVars

\* Offset::closed_from_time_zero: delta.val - 1
closed_from_time_zero(delta) == WrappingSub(delta, 1)

\* the caller may ask step_offsets() for another offset
MayPullOffset ==
    /\ Len(rb_offsets_yielded) < MaxOffsetsPulled
    /\ rb_offsets_yielded # <<>> => Last(rb_offsets_yielded).kind = "Some"

\* step_offsets(rb).next(): the next step, mapped to an offset; the
\* subtraction does not overflow, or the build has no overflow checks and
\* it wraps
StepOffsetsPull ==
    /\ MayPullOffset
    /\ LET n == RequestStepsNext(rb, rb_offsets_it)
       IN  /\ rb_offsets_yielded' =
                  Append(rb_offsets_yielded,
                         IF n.res.kind = "Some"
                         THEN Some(closed_from_time_zero(n.res.val))
                         ELSE n.res)
           /\ rb_offsets_it' = n.it
    /\ UNCHANGED <<rb, rb_steps_it, rb_steps_yielded>>
    /\ UNCHANGED notRequestVars

\* step_offsets(rb).next() in a build with overflow checks: the step is 0
\* and the subtraction panics
StepOffsetPanics ==
    /\ MayPullOffset
    /\ LET n == RequestStepsNext(rb, rb_offsets_it)
       IN  /\ n.res.kind = "Some"
           /\ SubOverflows(n.res.val, 1)
           /\ rb_offsets_yielded' = Append(rb_offsets_yielded, IterPanic)
           /\ rb_offsets_it' = n.it
    /\ UNCHANGED <<rb, rb_steps_it, rb_steps_yielded>>
    /\ UNCHANGED notRequestVars

RequestSpecInit == SearchIdle /\ MaxIdle /\ StepsIdle /\ BoundIdle /\ QueryIdle /\ MergeIdle /\ SupplyIdle /\ CostIdle /\ RequestInit /\ RtaIdle /\ DefaultIdle /\ ExtrapolationIdle

RequestNext == RequestStepsPull \/ StepOffsetsPull \/ StepOffsetPanics

\* the step iterator of every request bound within the bounds
RequestSpec == RequestSpecInit /\ [][RequestNext]_vars

\* ------------------------------------------ dedicated_uniproc_rta (FP, FIFO)

\* the tasks of the test fp_fp_rta_basic, (wcet, inter-arrival time), by
\* decreasing priority
TestParams == <<<<1, 4>>, <<1, 5>>, <<3, 9>>, <<3, 18>>>>

\* demand::RBF over Sporadic::new_zero_jitter and wcet::Scalar::new
TestRBF(i) ==
    [kind |-> "RBF",
     wcet |-> [kind |-> "Scalar", wcet |-> TestParams[i][1]],
     arrival_bound |-> [kind |-> "Sporadic",
                        min_inter_arrival |-> TestParams[i][2], jitter |-> 0]]

\* the run-to-completion threshold of the task under analysis
rtct ==
    IF policy.kind = "limited_preemptive"
    THEN WrappingSub(tua.wcet.wcet, WrappingSub(policy.last_np_segment, 1))
    ELSE tua.wcet.wcet

\* the remaining cost after the run-to-completion threshold
rem_cost == WrappingSub(tua.wcet.wcet, rtct)

\* the blocking bound: none in the fully-preemptive case
blocking ==
    IF policy.kind = "limited_preemptive" THEN policy.blocking_bound ELSE 0

\* tasks_rbf of the FIFO analysis: all tasks
tasks_rbf == [kind |-> "Slice", slice |-> Append(others, tua)]

\* a busy-window equation with MaxTaskPeriod units of demand too many
BusyWindowRhs_Inflated ==
    [len \in 0..rta_limit |->
        MaxTaskPeriod +
            (IF policy.kind = "fifo" THEN service_needed(tasks_rbf, len)
             ELSE blocking + Sum_service_needed(others, len)
                      + RBF_service_needed(tua, len))]

\* the right-hand side of the busy-window equation, on 0..limit
BusyWindowRhs ==
    [len \in 0..rta_limit |->
        IF policy.kind = "fifo" THEN service_needed(tasks_rbf, len)
        ELSE blocking + Sum_service_needed(others, len)
                 + RBF_service_needed(tua, len)]

\* the demand of the task at the offset itself, the job arriving there not counted
tua_demand_HalfOpen(a) == WrappingSub(RBF_service_needed(tua, a), rem_cost)

\* the demand of the task at the offset 0, whatever the offset
tua_demand_AtOffsetZero(a) == WrappingSub(RBF_service_needed(tua, 1), rem_cost)

\* self_interference - rem_cost for the offset a
tua_demand(a) == WrappingSub(RBF_service_needed(tua, a + 1), rem_cost)

\* the right-hand side of the equation for the offset a, on 0..limit
OffsetRhs(a) ==
    [af \in 0..rta_limit |->
        blocking + tua_demand(a) + Sum_service_needed(others, af)]

\* the request bound whose steps span the search space
SearchSpaceOf == IF policy.kind = "fifo" THEN tasks_rbf ELSE tua

\* Iterator::max over Durations
MaxDuration(x, y) ==
    IF x = Pending THEN y ELSE IF Cmp(x.val, y.val) = "Greater" THEN x ELSE y

\* what is returned once the search space is exhausted: the fold of
\* max_response_time, or of max() for FIFO, and the default for no offset
Exhausted == IF largest = Pending THEN Ok(0) ELSE largest

\* the prefixes whose number_arrivals never panics: the first step is at 1
SafePrefixes ==
    {p \in ArrivalCurvePrefixes : p.steps # <<>> /\ p.steps[1][1] = 1}

TaskArrivals ==
    {[kind |-> "Periodic", period |-> p] : p \in 1..MaxTaskPeriod}
        \cup {[kind |-> "Sporadic", min_inter_arrival |-> t, jitter |-> j] :
                  t \in 1..MaxTaskPeriod, j \in 0..MaxTaskJitter}
        \cup SafePrefixes

Tasks ==
    {[kind |-> "RBF", wcet |-> [kind |-> "Scalar", wcet |-> c],
      arrival_bound |-> ab] : c \in 1..MaxWcet, ab \in TaskArrivals}

Interferers ==
    {[kind |-> "RBF", wcet |-> [kind |-> "Scalar", wcet |-> c],
      arrival_bound |-> [kind |-> "Periodic", period |-> p]] :
        c \in 1..MaxWcet, p \in 1..MaxTaskPeriod}

Policies ==
    {[kind |-> "fifo"], [kind |-> "fully_preemptive"]}
        \cup {[kind |-> "limited_preemptive", last_np_segment |-> np,
               blocking_bound |-> b] : np \in 1..MaxWcet, b \in 0..MaxBlocking}

\* a call of dedicated_uniproc_rta: on a task set within the bounds, or on
\* a task of the test fp_fp_rta_basic with its higher-priority tasks
RtaInit ==
    /\ checked \in BOOLEAN
    /\ \/ /\ policy \in Policies
          /\ tua \in Tasks
          /\ policy.kind = "limited_preemptive" =>
                 policy.last_np_segment <= tua.wcet.wcet
          /\ others \in {<<>>} \cup {<<r>> : r \in Interferers}
          /\ rta_limit = RtaLimit
       \/ /\ policy = [kind |-> "fully_preemptive"]
          /\ \E i \in 1..Len(TestParams) :
                 /\ tua = TestRBF(i)
                 /\ others = [k \in 1..(i - 1) |-> TestRBF(k)]
          /\ rta_limit = TestHorizon
    /\ rta_pc = "busy_window"
    /\ rta_L = 0
    /\ space_it = RequestStepsNew(SearchSpaceOf)
    /\ rta_A = 0
    /\ rta_AF = 0
    /\ largest = Pending
    /\ rta_result = Pending

\* the busy-window bound L, or the failure of its search
RtaBusyWindow ==
    /\ rta_pc = "busy_window"
    /\ LET r == search(Dedicated, rta_limit, BusyWindowRhs, checked)
       IN  IF r.kind = "Ok"
           THEN /\ rta_L' = r.val
                /\ rta_pc' = "offsets"
                /\ UNCHANGED rta_result
           ELSE /\ rta_result' = r
                /\ rta_pc' = "done"
                /\ UNCHANGED rta_L
    /\ UNCHANGED <<policy, tua, others, rta_limit, checked, space_it, rta_A, rta_AF, largest>>
    /\ UNCHANGED notRtaVars

\* the next offset of step_offsets(..).take_while(|A| *A < max_offset); the
\* subtraction of closed_from_time_zero panics in a build with overflow
\* checks if the step is 0
RtaNextOffset ==
    /\ rta_pc = "offsets"
    /\ LET n == RequestStepsNext(SearchSpaceOf, space_it)
       IN  /\ space_it' = n.it
           /\ IF n.res.kind \in {"Panic", "Hang"}
                 \/ (n.res.kind = "Some" /\ checked /\ SubOverflows(n.res.val, 1))
              THEN /\ rta_result' = Panicked
                   /\ rta_pc' = "done"
                   /\ UNCHANGED rta_A
              ELSE IF n.res.kind = "Some" /\ closed_from_time_zero(n.res.val) < rta_L
              THEN /\ rta_A' = closed_from_time_zero(n.res.val)
                   /\ rta_pc' = IF policy.kind = "fifo" THEN "subtract"
                                ELSE "search"
                   /\ UNCHANGED rta_result
              ELSE /\ rta_result' = Exhausted
                   /\ rta_pc' = "done"
                   /\ UNCHANGED rta_A
    /\ UNCHANGED <<policy, tua, others, rta_limit, checked, rta_L, rta_AF, largest>>
    /\ UNCHANGED notRtaVars

\* FIFO: the bound of the offset, service_needed(A + 1) - A
RtaFifoBound ==
    /\ rta_pc = "subtract"
    /\ LET total_service == service_needed(tasks_rbf, rta_A + 1)
       IN  IF checked /\ SubOverflows(total_service, rta_A)
           THEN /\ rta_result' = Panicked
                /\ rta_pc' = "done"
                /\ UNCHANGED largest
           ELSE /\ largest' = MaxDuration(largest,
                                          Ok(WrappingSub(total_service, rta_A)))
                /\ rta_pc' = "offsets"
                /\ UNCHANGED rta_result
    /\ UNCHANGED <<policy, tua, others, rta_limit, checked, rta_L, space_it, rta_A, rta_AF>>
    /\ UNCHANGED notRtaVars

\* fixed priority: the search for the least fixed point AF of the offset
RtaSearchOffset ==
    /\ rta_pc = "search"
    /\ LET r == IF checked /\ SubOverflows(RBF_service_needed(tua, rta_A + 1),
                                            rem_cost)
                THEN Panicked
                ELSE search(Dedicated, rta_limit, OffsetRhs(rta_A), checked)
       IN  CASE r.kind = "Ok" ->
                   /\ rta_AF' = r.val
                   /\ rta_pc' = "extract"
                   /\ UNCHANGED <<largest, rta_result>>
             [] r.kind = "Err" ->
                   /\ largest' = IF largest = Pending THEN r
                                 ELSE MaxByFold(largest, r)
                   /\ rta_pc' = "offsets"
                   /\ UNCHANGED <<rta_AF, rta_result>>
             [] OTHER ->
                   /\ rta_result' = r
                   /\ rta_pc' = "done"
                   /\ UNCHANGED <<rta_AF, largest>>
    /\ UNCHANGED <<policy, tua, others, rta_limit, checked, rta_L, space_it, rta_A>>
    /\ UNCHANGED notRtaVars

\* fixed priority: F = AF - A, and the bound F + rem_cost of the offset
RtaExtract ==
    /\ rta_pc = "extract"
    /\ IF checked /\ SubOverflows(rta_AF, rta_A)
       THEN /\ rta_result' = Panicked
            /\ rta_pc' = "done"
            /\ UNCHANGED largest
       ELSE /\ largest' =
                   LET bound == Ok((WrappingSub(rta_AF, rta_A) + rem_cost) % TimeModulus)
                   IN  IF largest = Pending THEN bound
                       ELSE MaxByFold(largest, bound)
            /\ rta_pc' = "offsets"
            /\ UNCHANGED rta_result
    /\ UNCHANGED <<policy, tua, others, rta_limit, checked, rta_L, space_it, rta_A, rta_AF>>
    /\ UNCHANGED notRtaVars

RtaSpecInit == SearchIdle /\ MaxIdle /\ StepsIdle /\ BoundIdle /\ QueryIdle /\ MergeIdle /\ SupplyIdle /\ CostIdle /\ RequestIdle /\ RtaInit /\ DefaultIdle /\ ExtrapolationIdle

RtaNext ==
    RtaBusyWindow \/ RtaNextOffset \/ RtaFifoBound \/ RtaSearchOffset
        \/ RtaExtract

\* dedicated_uniproc_rta of the FIFO and the fixed-priority analyses
RtaSpec == RtaSpecInit /\ [][RtaNext]_vars

\* ------------------------------------------------------ bound_response_time

\* the arrival bounds behind the RBF passed as demand, whose steps_iter is
\* the arrival bound's; the prefixes count one job per step
Demands ==
    PeriodicArrivals \cup SporadicArrivals \cup {Never}
        \cup {ab \in ArrivalCurvePrefixes :
                 \A i \in 1..Len(ab.steps) : ab.steps[i][2] = i}

\* the closures passed as bw_demand_bound and as offset_demand_bound for one
\* offset: a constant demand, or one that grows with the interval, capped
DemandBounds ==
    {[r \in 0..MaxLimit |-> Min(MaxDemand, c + k * r)] :
        c \in 0..MaxDemand, k \in 0..1}

BoundInit ==
    /\ debug_assertions \in BOOLEAN
    /\ bound_supply \in {Dedicated} \cup PeriodicSupplies
    /\ request_bound \in Demands
    /\ limit \in 0..MaxLimit
    /\ bw = Pending
    /\ demand_steps = StepsIterNew(request_bound, <<>>)
    /\ offsets = <<>>
    /\ rta_bounds = <<>>
    /\ folded = Pending
    /\ bound_pc = "search"
    /\ bound_result = Pending

\* search(supply, limit, bw_demand_bound) returns Ok
BusyWindowFound ==
    /\ bound_pc = "search"
    /\ \E bw_demand_bound \in DemandBounds :
          LET found == search(bound_supply, limit, bw_demand_bound,
                              debug_assertions)
          IN  /\ found.kind = "Ok"
              /\ bw' = found
    /\ bound_pc' = "offsets"
    /\ UNCHANGED <<debug_assertions, bound_supply, request_bound, limit,
                   demand_steps, offsets, rta_bounds, folded, bound_result>>
    /\ UNCHANGED notBoundVars

\* search(supply, limit, bw_demand_bound) fails and `?` returns the failure
BusyWindowFails ==
    /\ bound_pc = "search"
    /\ \E bw_demand_bound \in DemandBounds :
          LET found == search(bound_supply, limit, bw_demand_bound,
                              debug_assertions)
          IN  /\ found.kind # "Ok"
              /\ bw' = found
              /\ bound_result' = found
    /\ bound_pc' = "done"
    /\ UNCHANGED <<debug_assertions, bound_supply, request_bound, limit,
                   demand_steps, offsets, rta_bounds, folded>>
    /\ UNCHANGED notBoundVars

\* `x - 1` in the map over the steps
StepToOffset(x) == WrappingSub(x, 1)

\* the predicate of take_while
InSearchSpace(x, max_bw) == x <= max_bw

\* max_by pulls the next offset, and the closure of rta_bounds returns
SearchOffset ==
    /\ bound_pc = "offsets"
    /\ LET n == StepsIterNext(request_bound, demand_steps, <<>>)
       IN  /\ n.res.kind = "Some"
           /\ ~(debug_assertions /\ SubOverflows(n.res.val, 1))
           /\ InSearchSpace(StepToOffset(n.res.val), bw.val)
           /\ \E offset_demand_bound \in DemandBounds :
                 LET rta == AssertedSearch(bound_supply,
                                StepToOffset(n.res.val), limit,
                                offset_demand_bound, debug_assertions)
                 IN  /\ rta # Panicked
                     /\ rta_bounds' = Append(rta_bounds, rta)
                     /\ folded' = IF folded = Pending THEN rta
                                  ELSE MaxByFold(folded, rta)
           /\ offsets' = Append(offsets, StepToOffset(n.res.val))
           /\ demand_steps' = n.it
    /\ UNCHANGED <<debug_assertions, bound_supply, request_bound, limit, bw,
                   bound_pc, bound_result>>
    /\ UNCHANGED notBoundVars

\* a debug build panics: in `x - 1`, in the subtraction of
\* search_with_offset, or in the debug_assert_eq!
OffsetPanics ==
    /\ bound_pc = "offsets"
    /\ debug_assertions
    /\ LET n == StepsIterNext(request_bound, demand_steps, <<>>)
       IN  /\ n.res.kind = "Some"
           /\ \/ SubOverflows(n.res.val, 1)
              \/ /\ ~SubOverflows(n.res.val, 1)
                 /\ InSearchSpace(StepToOffset(n.res.val), bw.val)
                 /\ \E offset_demand_bound \in DemandBounds :
                       AssertedSearch(bound_supply, StepToOffset(n.res.val),
                           limit, offset_demand_bound, debug_assertions)
                         = Panicked
    /\ bound_result' = Panicked
    /\ bound_pc' = "done"
    /\ UNCHANGED <<debug_assertions, bound_supply, request_bound, limit, bw,
                   demand_steps, offsets, rta_bounds, folded>>
    /\ UNCHANGED notBoundVars

\* the steps are exhausted or take_while stops: max_response_time returns
EndOfOffsets ==
    /\ bound_pc = "offsets"
    /\ LET n == StepsIterNext(request_bound, demand_steps, <<>>)
       IN  \/ n.res.kind = "None"
           \/ /\ n.res.kind = "Some"
              /\ ~(debug_assertions /\ SubOverflows(n.res.val, 1))
              /\ ~InSearchSpace(StepToOffset(n.res.val), bw.val)
    /\ bound_result' = IF folded = Pending THEN Ok(0) ELSE folded
    /\ bound_pc' = "done"
    /\ UNCHANGED <<debug_assertions, bound_supply, request_bound, limit, bw,
                   demand_steps, offsets, rta_bounds, folded>>
    /\ UNCHANGED notBoundVars

BoundSpecInit == SearchIdle /\ MaxIdle /\ StepsIdle /\ BoundInit /\ QueryIdle /\ MergeIdle /\ SupplyIdle /\ CostIdle /\ RequestIdle /\ RtaIdle /\ DefaultIdle /\ ExtrapolationIdle

BoundNext ==
    BusyWindowFound \/ BusyWindowFails \/ SearchOffset \/ OffsetPanics
        \/ EndOfOffsets

\* bound_response_time for every supply, demand and limit within the bounds,
\* in a debug and in a release build
BoundSpec == BoundSpecInit /\ [][BoundNext]_vars

\* ------------------------------- max_response_time over Option (analysis.rs)

\* the closure handed to max_by: a is the accumulator, b the next element
OptionCompare(a, b) ==
    IF a.kind = "None" THEN "Less"
    ELSE IF b.kind = "None" THEN "Greater"
    ELSE Cmp(a.val, b.val)

\* Iterator::max_by's fold with that closure
OptionMaxByFold(x, y) == IF OptionCompare(x, y) = "Greater" THEN x ELSE y

\* what fixed_point_search_with_offset returns for an offset
OptionResults == {None} \cup {Some(v) : v \in 0..MaxValue}

OptionMaxInit ==
    /\ rta_per_offset \in SeqsUpTo(OptionResults, MaxResults)
    /\ consumed = <<>>
    /\ best = Pending
    /\ max_pc = "option_fold"
    /\ max_result = Pending

\* max_by takes the first element of the iterator
OptionMaxByFirst ==
    /\ max_pc = "option_fold"
    /\ consumed = <<>>
    /\ rta_per_offset # <<>>
    /\ best' = Head(rta_per_offset)
    /\ consumed' = <<Head(rta_per_offset)>>
    /\ rta_per_offset' = Tail(rta_per_offset)
    /\ UNCHANGED <<max_pc, max_result>>
    /\ UNCHANGED notMaxVars

\* max_by folds the next element into the accumulator
OptionMaxByNext ==
    /\ max_pc = "option_fold"
    /\ consumed # <<>>
    /\ rta_per_offset # <<>>
    /\ best' = OptionMaxByFold(best, Head(rta_per_offset))
    /\ consumed' = Append(consumed, Head(rta_per_offset))
    /\ rta_per_offset' = Tail(rta_per_offset)
    /\ UNCHANGED <<max_pc, max_result>>
    /\ UNCHANGED notMaxVars

\* the iterator is exhausted: unwrap_or(None)
OptionMaxByEnd ==
    /\ max_pc = "option_fold"
    /\ rta_per_offset = <<>>
    /\ max_result' = IF consumed = <<>> THEN None ELSE best
    /\ max_pc' = "done"
    /\ UNCHANGED <<rta_per_offset, consumed, best>>
    /\ UNCHANGED notMaxVars

OptionMaxSpecInit == SearchIdle /\ OptionMaxInit /\ StepsIdle /\ BoundIdle /\ QueryIdle /\ MergeIdle /\ SupplyIdle /\ CostIdle /\ RequestIdle /\ RtaIdle /\ DefaultIdle /\ ExtrapolationIdle

OptionMaxNext == OptionMaxByFirst \/ OptionMaxByNext \/ OptionMaxByEnd

\* the Option-based max_response_time applied to every sequence of
\* per-offset results within the bounds
OptionMaxSpec == OptionMaxSpecInit /\ [][OptionMaxNext]_vars

\* --------------------------------- the default SupplyBound::service_time

\* an implementor of SupplyBound that gives provided_service only: a lower
\* bound on the supply of a dedicated processor, given as a table for the
\* short intervals and growing with the interval after the table
Table_provided_service(table, delta) ==
    IF delta < Len(table) THEN table[delta + 1]
    ELSE Last(table) + (delta - (Len(table) - 1))

\* the tables that are non-decreasing and never exceed the interval length
SupplyTables ==
    {tb \in UNION {[1..n -> 0..MaxDemand] : n \in 1..MaxTableLen} :
        /\ \A i \in 1..Len(tb) : tb[i] <= i - 1
        /\ \A i \in 1..(Len(tb) - 1) : tb[i] <= tb[i + 1]}

\* a jump one further than what is still missing
JumpAhead_Overshoot(t, demand, supply_at_t) == t + (demand - supply_at_t) + 1

\* t += Duration::from(demand - supply)
JumpAhead(t, demand, supply_at_t) == t + (demand - supply_at_t)

\* let mut t = Duration::from(demand)
DefaultInit ==
    /\ st_sbf \in SupplyTables
    /\ st_demand \in 0..MaxDemand
    /\ st_t = st_demand
    /\ st_pc = "loop"
    /\ st_result = Pending

\* supply >= demand: return t
DefaultReturn ==
    /\ st_pc = "loop"
    /\ Table_provided_service(st_sbf, st_t) >= st_demand
    /\ st_result' = Ok(st_t)
    /\ st_pc' = "done"
    /\ UNCHANGED <<st_sbf, st_demand, st_t>>
    /\ UNCHANGED notDefaultVars

\* supply < demand: jump ahead by how much is still missing
DefaultJump ==
    /\ st_pc = "loop"
    /\ Table_provided_service(st_sbf, st_t) < st_demand
    /\ st_t' = JumpAhead(st_t, st_demand, Table_provided_service(st_sbf, st_t))
    /\ UNCHANGED <<st_sbf, st_demand, st_pc, st_result>>
    /\ UNCHANGED notDefaultVars

DefaultSpecInit == SearchIdle /\ MaxIdle /\ StepsIdle /\ BoundIdle /\ QueryIdle /\ MergeIdle /\ SupplyIdle /\ CostIdle /\ RequestIdle /\ RtaIdle /\ DefaultInit /\ ExtrapolationIdle

DefaultNext == DefaultReturn \/ DefaultJump

\* the default service_time, iteration by iteration, for every table and
\* demand within the bounds
DefaultSpec == DefaultSpecInit /\ [][DefaultNext]_vars

\* ------------------------- the loops of the arrival ExtrapolatingCurve

\* the vectors Curve::new accepts that are monotone, the all-zero ones of
\* simultaneous arrivals included
AllDeltaMinPrefixes ==
    UNION {{md \in [1..n -> 0..MaxDistance] :
               \A i \in 1..(n - 1) : md[i] <= md[i + 1]} : n \in 1..MaxPrefixLen}

\* the capacity of the vector: a push beyond it fails for lack of memory
\* and the process aborts
MaxExtrapolated == (MaxPrefixLen + 1) * (MaxQueried + 2)

\* ExtrapolatingCurve::new and steps_iter()
ExtrapolationInit ==
    /\ ex_md \in AllDeltaMinPrefixes
    /\ ex_it = IF can_extrapolate(ex_md)
               THEN [mode |-> "extrapolating", dist |-> 0, njobs |-> 0]
               ELSE [mode |-> "degenerate", period |-> min_distance(ex_md, 2),
                     j |-> 0]
    /\ ex_call = <<>>
    /\ ex_pc = "ready"
    /\ ex_calls = 0

\* number_arrivals(delta): zero for delta = 0, else Curve::extrapolate is
\* entered with the horizon delta + 1
CallNumberArrivals ==
    /\ ex_pc = "ready"
    /\ ex_calls < MaxCalls
    /\ \E delta \in 0..MaxQueried :
          /\ ex_call' = <<"number_arrivals", delta>>
          /\ ex_pc' = IF delta = 0 THEN "ready" ELSE "extrapolate"
    /\ ex_calls' = ex_calls + 1
    /\ UNCHANGED <<ex_md, ex_it>>
    /\ UNCHANGED notExtrapolationVars

\* one iteration of the loop of Curve::extrapolate
ExtrapolatePush ==
    /\ ex_pc = "extrapolate"
    /\ can_extrapolate(ex_md)
    /\ Last(ex_md) < ex_call[2] + 1
    /\ Len(ex_md) < MaxExtrapolated
    /\ ex_md' = Append(ex_md, extrapolate_next(ex_md))
    /\ UNCHANGED <<ex_it, ex_call, ex_pc, ex_calls>>
    /\ UNCHANGED notExtrapolationVars

\* the loop of Curve::extrapolate goes on with the vector at its capacity:
\* the push aborts the process
ExtrapolateAborts ==
    /\ ex_pc = "extrapolate"
    /\ can_extrapolate(ex_md)
    /\ Last(ex_md) < ex_call[2] + 1
    /\ Len(ex_md) = MaxExtrapolated
    /\ ex_pc' = "aborted"
    /\ UNCHANGED <<ex_md, ex_it, ex_call, ex_calls>>
    /\ UNCHANGED notExtrapolationVars

\* Curve::extrapolate is left and number_arrivals returns
ExtrapolateReturn ==
    /\ ex_pc = "extrapolate"
    /\ ~(can_extrapolate(ex_md) /\ Last(ex_md) < ex_call[2] + 1)
    /\ ex_pc' = "ready"
    /\ UNCHANGED <<ex_md, ex_it, ex_call, ex_calls>>
    /\ UNCHANGED notExtrapolationVars

\* Iterator::next: the value is taken and, for a curve that can be
\* extrapolated, advance() is entered
CallNext ==
    /\ ex_pc = "ready"
    /\ ex_calls < MaxCalls
    /\ IF ex_it.mode = "extrapolating"
       THEN /\ ex_call' = <<"next", 1 + ex_it.dist>>
            /\ ex_pc' = "advance"
            /\ UNCHANGED ex_it
       ELSE /\ ex_call' = <<"next", ex_it.period * ex_it.j + 1>>
            /\ ex_it' = [ex_it EXCEPT !.j = ex_it.j + 1]
            /\ UNCHANGED ex_pc
    /\ ex_calls' = ex_calls + 1
    /\ UNCHANGED ex_md
    /\ UNCHANGED notExtrapolationVars

\* one iteration of the loop of advance()
AdvanceIterate ==
    /\ ex_pc = "advance"
    /\ min_distance(ex_md, ex_it.njobs) <= ex_it.dist
    /\ ex_it.njobs < MaxExtrapolated
    /\ ex_md' = extrapolate_steps(ex_md, ex_it.njobs + 1)
    /\ ex_it' = [ex_it EXCEPT !.njobs = ex_it.njobs + 1]
    /\ UNCHANGED <<ex_call, ex_pc, ex_calls>>
    /\ UNCHANGED notExtrapolationVars

\* the loop of advance() goes on with the vector at its capacity: the push
\* in extrapolate_steps aborts the process
AdvanceAborts ==
    /\ ex_pc = "advance"
    /\ min_distance(ex_md, ex_it.njobs) <= ex_it.dist
    /\ ex_it.njobs = MaxExtrapolated
    /\ ex_pc' = "aborted"
    /\ UNCHANGED <<ex_md, ex_it, ex_call, ex_calls>>
    /\ UNCHANGED notExtrapolationVars

\* the loop of advance() is left and next returns
AdvanceReturn ==
    /\ ex_pc = "advance"
    /\ ~(min_distance(ex_md, ex_it.njobs) <= ex_it.dist)
    /\ ex_it' = [ex_it EXCEPT !.dist = min_distance(ex_md, ex_it.njobs)]
    /\ ex_pc' = "ready"
    /\ UNCHANGED <<ex_md, ex_call, ex_calls>>
    /\ UNCHANGED notExtrapolationVars

ExtrapolationSpecInit == SearchIdle /\ MaxIdle /\ StepsIdle /\ BoundIdle /\ QueryIdle /\ MergeIdle /\ SupplyIdle /\ CostIdle /\ RequestIdle /\ RtaIdle /\ DefaultIdle /\ ExtrapolationInit

ExtrapolationNext ==
    CallNumberArrivals \/ ExtrapolatePush \/ ExtrapolateAborts
        \/ ExtrapolateReturn \/ CallNext \/ AdvanceIterate \/ AdvanceAborts
        \/ AdvanceReturn

\* the calls on one ExtrapolatingCurve, loop iteration by loop iteration
ExtrapolationSpec == ExtrapolationSpecInit /\ [][ExtrapolationNext]_vars

\* the loops are sequential code: an iteration that can be made is made
ExtrapolationLiveSpec == ExtrapolationSpec /\ WF_vars(ExtrapolationNext)

\* ------------------------------------------------------------------ claims

\* C1: if search_with_offset returns Ok(R), then
\* supply.service_time(workload(R)) - offset = R.
C1_ConvergenceIdentity ==
    (pc = "done" /\ result.kind = "Ok") =>
        ResponseTimeBound(supply, offset, workload[result.val]) = result.val

\* C2: search_with_offset and brute_force_search_with_offset return the
\* same result: the same Ok value, or DivergenceLimitExceeded in both.
C2_AgreesWithBruteForce ==
    pc = "done" =>
        result = brute_force_search_with_offset(supply, offset,
                                                divergence_limit, workload)

\* C3: search_with_offset returns a failure exactly when an iterate exceeds
\* the divergence limit before the convergence test has succeeded, and the
\* failure carries the offset and the limit of the call.
C3_FailureIffLimitExceeded ==
    pc = "done" =>
        /\ result.kind = "Err" <=> assumed_response_time > divergence_limit
        /\ result.kind = "Err" =>
               result = DivergenceLimitExceeded(offset, divergence_limit)

\* a search with a positive offset that iterated and then exceeded its limit
C3_Witness ==
    /\ pc = "done"
    /\ result.kind = "Err"
    /\ offset > 0
    /\ evaluations >= 2

\* C4: every pass through the loop that does not return strictly increases
\* the assumed response time, the workload is evaluated at most
\* divergence_limit times, and the search terminates.
C4_Terminates ==
    /\ [][(pc = "loop" /\ pc' = "loop") =>
              assumed_response_time' > assumed_response_time]_vars
    /\ [](evaluations <= divergence_limit)
    /\ <>(pc = "done")

\* a search that evaluated its workload as often as the limit allows
C4_Witness ==
    /\ pc = "done"
    /\ divergence_limit >= 2
    /\ evaluations = divergence_limit

\* the failures of a sequence of results, in order
Failures(q) == SelectSeq(q, LAMBDA r : r.kind = "Err")

\* the largest value of a non-empty set of results without failures
LargestOf(q) ==
    CHOOSE r \in {q[i] : i \in 1..Len(q)} :
        \A i \in 1..Len(q) : q[i].val <= r.val

\* C5: if the sequence handed to max_response_time contains a failure, the
\* first failure of the sequence is returned.
C5_FirstFailureReturned ==
    (max_pc = "done" /\ Failures(consumed) # <<>>) =>
        max_result = Head(Failures(consumed))

\* a sequence with a value, a failure, a different failure and a value
C5_Witness ==
    /\ max_pc = "done"
    /\ Len(consumed) = 4
    /\ consumed[1].kind = "Ok"
    /\ consumed[2].kind = "Err"
    /\ consumed[3].kind = "Err"
    /\ consumed[3] # consumed[2]
    /\ consumed[4].kind = "Ok"

\* C6: if the sequence contains no failure, max_response_time returns Ok of
\* its largest value, and Ok(0) if it is empty.
C6_LargestValueReturned ==
    (max_pc = "done" /\ Failures(consumed) = <<>>) =>
        max_result = IF consumed = <<>> THEN Ok(0) ELSE LargestOf(consumed)

\* a sequence of values whose largest is neither the first nor the last
C6_Witness ==
    /\ max_pc = "done"
    /\ Len(consumed) = 3
    /\ Failures(consumed) = <<>>
    /\ consumed[2].val > consumed[1].val
    /\ consumed[2].val > consumed[3].val
    /\ max_result = consumed[2]

\* number_arrivals is defined at s and s - 1 and increments at s
IsStep(ab, s, pfx) ==
    /\ s >= 1
    /\ number_arrivals(ab, s - 1, pfx) >= 0
    /\ number_arrivals(ab, s, pfx) > number_arrivals(ab, s - 1, pfx)

\* C9: for every arrival bound, every value s that steps_iter yields
\* satisfies s >= 1 and number_arrivals(s) > number_arrivals(s - 1).
C9_StepsAreIncrements ==
    \A i \in 1..Len(steps_yielded) :
        steps_yielded[i].kind = "Some"
            => IsStep(arrival_bound, steps_yielded[i].val, prefix)

\* the values an iterator has yielded
Values(yielded) ==
    [i \in 1..Cardinality({k \in 1..Len(yielded) : yielded[k].kind = "Some"})
        |-> yielded[i].val]

IsPrefixOf(p, q) == Len(p) <= Len(q) /\ \A i \in 1..Len(p) : p[i] = q[i]

\* C10: for Periodic, Sporadic, Curve and ExtrapolatingCurve, steps_iter
\* yields the same sequence as brute_force_steps_iter, and the sequence is
\* strictly increasing.
C10_SameAsBruteForce ==
    arrival_bound.kind \in {"Periodic", "Sporadic", "Curve", "ExtrapolatingCurve"}
        => /\ \/ IsPrefixOf(steps_yielded, bf_yielded)
              \/ IsPrefixOf(bf_yielded, steps_yielded)
           /\ \A i \in 1..(Len(steps_yielded) - 1) :
                 Values(steps_yielded)[i] < Values(steps_yielded)[i + 1]

\* C7: bound_response_time returns Ok only if the busy-window search and
\* the search of every offset it enumerated succeeded; if the busy-window
\* search fails, it returns that failure and searches no offset.
C7_NoPartialSuccess ==
    /\ bound_result.kind = "Ok"
          => /\ bw.kind = "Ok"
             /\ \A i \in 1..Len(rta_bounds) : rta_bounds[i].kind = "Ok"
    /\ bw.kind = "Err"
          => /\ bound_pc = "done"
             /\ bound_result = bw
             /\ offsets = <<>>
             /\ rta_bounds = <<>>

\* the search of a later offset failed after an earlier one had succeeded,
\* and bound_response_time returned the failure
C7_Witness ==
    /\ bound_pc = "done"
    /\ Len(rta_bounds) >= 2
    /\ rta_bounds[1].kind = "Ok"
    /\ rta_bounds[Len(rta_bounds)].kind = "Err"
    /\ bound_result.kind = "Err"

\* the offsets s - 1 of the steps s of ab with s - 1 <= L, in the order of
\* the steps
RECURSIVE OffsetsUpTo(_, _, _)
OffsetsUpTo(ab, it, L) ==
    LET n == StepsIterNext(ab, it, <<>>)
    IN  IF n.res.kind # "Some" \/ n.res.val - 1 > L THEN <<>>
        ELSE <<n.res.val - 1>> \o OffsetsUpTo(ab, n.it, L)

\* C8: when bound_response_time returns after a successful busy-window
\* search with result L, it has run the per-offset search for exactly the
\* offsets s - 1 of the steps s of the demand with s - 1 <= L, in order.
C8_SearchSpace ==
    (bound_pc = "done" /\ bw.kind = "Ok" /\ bound_result # Panicked)
        => offsets = OffsetsUpTo(request_bound,
                                 StepsIterNew(request_bound, <<>>), bw.val)

\* C11: number_arrivals is monotone: of two consecutive queries that both
\* return, the one for the longer interval returns at least as many jobs.
C11_Monotone ==
    [][(answer # <<>> /\ answer[2] # PanicJobs /\ answer'[2] # PanicJobs)
          => /\ answer[1] <= answer'[1] => answer[2] <= answer'[2]
             /\ answer[1] >= answer'[1] => answer[2] >= answer'[2]]_vars

\* a query beyond the folding boundary of a Curve or an ArrivalCurvePrefix
\* with more than one step, answered with more jobs than fit below it
C11_Witness ==
    /\ answer # <<>>
    /\ \/ /\ queried_bound.kind = "Curve"
          /\ Len(queried_bound.min_distance) >= 2
          /\ answer[1] > Last(queried_bound.min_distance)
          /\ answer[2] > Len(queried_bound.min_distance)
       \/ /\ queried_bound.kind = "ArrivalCurvePrefix"
          /\ Len(queried_bound.steps) >= 2
          /\ answer[1] > queried_bound.horizon
          /\ answer[2] > max_njobs_in_horizon(queried_bound)

\* the summed number_arrivals is defined at s and s - 1 and increments at s
IsStepOfSum(abs, s) ==
    /\ s >= 1
    /\ Sum_number_arrivals(abs, s - 1) >= 0
    /\ Sum_number_arrivals(abs, s) > Sum_number_arrivals(abs, s - 1)

\* C12: the merged steps_iter of a Vec, slice or SumOf yields the steps of
\* the summed number_arrivals, each once, in strictly increasing order, and
\* skips none.
C12_MergedSteps ==
    LET vals == Values(merged_yielded)
    IN  /\ \A i \in 1..Len(vals) : IsStepOfSum(components, vals[i])
        /\ \A i \in 1..(Len(vals) - 1) : vals[i] < vals[i + 1]
        /\ vals # <<>>
              => \A d \in 1..vals[Len(vals)] :
                    IsStepOfSum(components, d)
                        => \E i \in 1..Len(vals) : vals[i] = d

\* C13: for every S > 0, provided_service(service_time(S)) = S.
C13_RoundTrip ==
    (/\ service_time_call # <<>>
     /\ provided_service_call # <<>>
     /\ service_time_call[1] > 0
     /\ provided_service_call[1] = service_time_call[2])
        => provided_service_call[2] = service_time_call[1]

\* a periodic supply with a blackout was asked for more than one budget,
\* and then for the service provided in the service time
C13_Witness ==
    /\ sbf.kind = "Periodic"
    /\ sbf.budget < sbf.period
    /\ service_time_call # <<>>
    /\ provided_service_call # <<>>
    /\ service_time_call[1] > sbf.budget
    /\ provided_service_call[1] = service_time_call[2]

\* C14: for every S > 0, provided_service(service_time(S) - 1) < S.
C14_SmallestInterval ==
    (/\ service_time_call # <<>>
     /\ provided_service_call # <<>>
     /\ service_time_call[1] > 0
     /\ provided_service_call[1] = service_time_call[2] - 1)
        => provided_service_call[2] < service_time_call[1]

\* a constrained supply was asked for more than one budget, and then for
\* the service provided in one time unit less than the service time
C14_Witness ==
    /\ sbf.kind = "Constrained"
    /\ sbf.deadline < sbf.period
    /\ service_time_call # <<>>
    /\ provided_service_call # <<>>
    /\ service_time_call[1] > sbf.budget
    /\ provided_service_call[1] = service_time_call[2] - 1

\* C15: provided_service(0) = 0, and of two consecutive calls the one for
\* the longer interval returns at least as much service.
C15_ProvidedMonotone ==
    [][provided_service_call' # <<>>
          => /\ provided_service_call'[1] = 0
                   => provided_service_call'[2] = 0
             /\ (provided_service_call # <<>>
                  /\ provided_service_call[1] <= provided_service_call'[1])
                    => provided_service_call[2] <= provided_service_call'[2]
             /\ (provided_service_call # <<>>
                  /\ provided_service_call[1] >= provided_service_call'[1])
                    => provided_service_call[2] >= provided_service_call'[2]]_vars

\* a constrained supply whose deadline is shorter than its period has
\* provided more than one budget
C15_Witness ==
    /\ sbf.kind = "Constrained"
    /\ sbf.deadline < sbf.period
    /\ provided_service_call # <<>>
    /\ provided_service_call[2] > sbf.budget

\* the first n items job_cost_iter() has yielded
FirstJobCosts(n) == SubSeq(job_costs_yielded, 1, Min(n, Len(job_costs_yielded)))

\* whether job_cost_iter() has yielded its first n items, or has ended
\* before that
HasYielded(n) ==
    \/ Len(job_costs_yielded) >= n
    \/ /\ job_costs_yielded # <<>>
       /\ job_costs_yielded[Len(job_costs_yielded)].kind # "Some"

\* Iterator::sum over the values yielded, in the arithmetic of Service
RECURSIVE SumOfCosts(_)
SumOfCosts(q) ==
    IF q = <<>> THEN 0
    ELSE ((IF q[1].kind = "Some" THEN q[1].val ELSE 0) + SumOfCosts(Tail(q)))
             % TimeModulus

\* C16: for every cost model and every n, the first n values job_cost_iter
\* yields add up to cost_of_jobs(n): once cost_of_jobs(n) has been called
\* and the iterator has yielded its first n items, none of them is a panic
\* and their sum is the value the call returned.
C16_SumOfJobCosts ==
    (/\ cost_call # <<>>
     /\ cost_call[1] = "cost_of_jobs"
     /\ HasYielded(cost_call[2]))
        => /\ \A i \in 1..Len(FirstJobCosts(cost_call[2])) :
                  FirstJobCosts(cost_call[2])[i].kind # "Panic"
           /\ SumOfCosts(FirstJobCosts(cost_call[2])) = cost_call[3]

\* whether the last call was cost_of_jobs
IsCostOfJobs(call) == call # <<>> /\ call[1] = "cost_of_jobs"

\* C17: cost_of_jobs(0) = 0 and cost_of_jobs is non-decreasing, for every
\* cost model and for a curve extrapolated from a non-decreasing vector:
\* a call with n = 0 returns 0, and of two consecutive calls the one with
\* the smaller n does not return the larger value.
C17_CostMonotone ==
    [][IsCostOfJobs(cost_call') =>
          /\ cost_call'[2] = 0 => cost_call'[3] = 0
          /\ IsCostOfJobs(cost_call) =>
                 /\ cost_call[2] <= cost_call'[2] => cost_call[3] <= cost_call'[3]
                 /\ cost_call'[2] <= cost_call[2] => cost_call'[3] <= cost_call[3]]_vars

\* the values among the first n items job_cost_iter() has yielded
FirstJobCostValues(n) ==
    {FirstJobCosts(n)[i].val :
        i \in {j \in 1..Len(FirstJobCosts(n)) : FirstJobCosts(n)[j].kind = "Some"}}

\* C18: least_wcet(0) = 0, and for n >= 1 least_wcet(n) is the least of
\* the first n values job_cost_iter yields (0 if it yields none): once
\* least_wcet(n) has been called and the iterator has yielded its first n
\* items, neither has panicked and the value returned is that minimum.
C18_LeastOfFirstJobs ==
    (cost_call # <<>> /\ cost_call[1] = "least_wcet") =>
        /\ cost_call[2] = 0 => cost_call[3] = 0
        /\ (cost_call[2] >= 1 /\ HasYielded(cost_call[2])) =>
               /\ cost_call[3] # PanicCost
               /\ \A i \in 1..Len(FirstJobCosts(cost_call[2])) :
                      FirstJobCosts(cost_call[2])[i].kind # "Panic"
               /\ cost_call[3] =
                      IF FirstJobCostValues(cost_call[2]) = {} THEN 0
                      ELSE MinOf(FirstJobCostValues(cost_call[2]))

\* C19: what number_arrivals(delta) of the arrival ExtrapolatingCurve and
\* cost_of_jobs(n) of the cost ExtrapolatingCurve return depends only on
\* the argument and the initial prefix: whatever was queried before, the
\* value returned is the one the freshly constructed curve returns.
C19_PureOfInitialPrefix ==
    /\ answer # <<>> =>
           answer[2] = number_arrivals(queried_bound, answer[1], initial_prefix)
    /\ IsCostOfJobs(cost_call) =>
           cost_call[3] = cost_of_jobs(cost_model, initial_costs, cost_call[2])

\* a cost curve answered a query from entries that an earlier, larger
\* query had appended to its vector
C19_Witness ==
    /\ cost_model.kind = "ExtrapolatingCurve"
    /\ IsCostOfJobs(cost_call)
    /\ Len(initial_costs) < cost_call[2]
    /\ cost_call[2] < Len(costs)

\* service_needed is defined at s and s - 1 and increments at s
IsServiceStep(r, s) ==
    /\ s >= 1
    /\ service_needed(r, s - 1) >= 0
    /\ service_needed(r, s) > service_needed(r, s - 1)

\* C20: steps_iter of an RBF, an Aggregate or a Slice yields, in strictly
\* increasing order, exactly the deltas with
\* service_needed(delta - 1) < service_needed(delta): every value yielded
\* is such a delta, and none up to the last value yielded is left out.
C20_ServiceSteps ==
    LET vals == Values(rb_steps_yielded)
    IN  /\ \A i \in 1..Len(vals) : IsServiceStep(rb, vals[i])
        /\ \A i \in 1..(Len(vals) - 1) : vals[i] < vals[i + 1]
        /\ vals # <<>>
              => \A d \in 1..vals[Len(vals)] :
                    IsServiceStep(rb, d) => \E i \in 1..Len(vals) : vals[i] = d

\* C21: the first element step_offsets(rb) yields is the offset 0, for
\* every request bound rb: once step_offsets has been asked for its first
\* element, that element is Some(0).
C21_FirstOffsetIsZero ==
    rb_offsets_yielded # <<>> => rb_offsets_yielded[1] = Some(0)

\* the bounds the test fp_fp_rta_basic expects
TestExpected == <<1, 2, 7, 18>>

\* C22: for the task set (1,4), (1,5), (3,9), (3,18) the fully-preemptive
\* fixed-priority analysis of each task, with the tasks before it as
\* interference, returns 1, 2, 7 and 18.
C22_TestBounds ==
    \A i \in 1..Len(TestParams) :
        (/\ policy.kind = "fully_preemptive"
         /\ rta_limit = TestHorizon
         /\ tua = TestRBF(i)
         /\ rta_pc = "done")
            => rta_result = Ok(TestExpected[i])

\* the analysis of the lowest-priority task has returned
C22_Witness ==
    /\ policy.kind = "fully_preemptive"
    /\ rta_limit = TestHorizon
    /\ tua = TestRBF(4)
    /\ Len(others) = 3
    /\ rta_pc = "done"
    /\ rta_result = Ok(18)

\* C23: in the Option-based max_response_time, a None among the per-offset
\* results makes the result None, whatever Some values there are
C23_NonePropagates ==
    (/\ max_pc = "done"
     /\ max_result \in OptionResults
     /\ \E i \in 1..Len(consumed) : consumed[i] = None) => max_result = None

\* the supply grows by at most one unit of service per unit of time
AtMostUnitRate(table) ==
    \A i \in 1..(Len(table) - 1) : table[i + 1] <= table[i] + 1

C24_LeastOfInitialPrefix ==
    (/\ cost_model.kind = "ExtrapolatingCurve"
     /\ cost_call # <<>>
     /\ cost_call[1] = "least_wcet") =>
        cost_call[3] = WcetCurve_least_wcet(initial_costs, cost_call[2])

\* the cost of i + j jobs is at most the costs of i and of j jobs
SubAdditive(w) ==
    \A i, j \in 1..Len(w) : i + j <= Len(w) => w[i + j] <= w[i] + w[j]

\* C26: for a wcet::Curve whose prefix has at least three entries and is
\* sub-additive, cost_of_jobs(n) after extrapolate(m) is at most
\* cost_of_jobs(n) before it
C26_ExtrapolationTightens ==
    (/\ cost_model.kind = "Curve"
     /\ Len(initial_costs) >= 3
     /\ SubAdditive(initial_costs)
     /\ cost_call # <<>>
     /\ cost_call[1] = "cost_of_jobs") =>
        cost_call[3] <= WcetCurve_cost_of_jobs(initial_costs, cost_call[2])

\* C27: number_arrivals of an ArrivalCurvePrefix that the constructor
\* accepts returns a count for every interval length and never panics
C27_PrefixNeverPanics ==
    (queried_bound.kind = "ArrivalCurvePrefix" /\ answer # <<>>) =>
        answer[2] # PanicJobs

\* C28: every number_arrivals query and every next() on the steps of an
\* arrival ExtrapolatingCurve returns after finitely many extrapolation
\* steps
C28_CallsReturn == (ex_pc \in {"extrapolate", "advance"}) ~> (ex_pc = "ready")

====
